---------------------------- MODULE Spec2Model ----------------------------
(***************************************************************************)
(* A model of the Celaya agent runtime:                                    *)
(*   - the turn scheduler     (celaya-agents/orchestrator.py)              *)
(*   - the consensus engine   (celaya_python/runtime/consensus.py)         *)
(*   - the message bus        (celaya_python/runtime/bus.py)               *)
(*                                                                         *)
(* Reputations and vote weights are floats in [0,1] in the source; they    *)
(* are kept here as integers in hundredths (1.0 = 100).  An effective      *)
(* interrupt priority  p * (0.5 + rep/2)  is kept multiplied by 200, i.e.  *)
(* as  p * (100 + rep).                                                    *)
(***************************************************************************)
EXTENDS Integers, Sequences, FiniteSets, TLC

\* ------------------------------------------------------------------ bounds
MaxTurns == 6
MaxCalls == 2
MaxFaults == 3
MaxEvents == 4
LastCallTurn == 2
MaxSoloFaults == 6
MaxSoloEvents == 6
MaxTimeouts == 6
MaxMsgs == 3
MaxPlainMsgs == 4
MaxWeightSets == 2
MaxTime == 1
MaxConsEvents == 5
MaxPublish == 3
MaxBusOps == 3
AwaitPolls == 2
MaxTasks == 3
MaxTicks == 4
MaxStops == 3
MaxReadyReports == 2
MaxLedgerOps == 3
MaxKeys == 3
MaxKeyringOps == 3
MaxBallotOps == 4

\* --------------------------------------------------------------- constants
MIN_SLICE == 1500
PREEMPT_THRESHOLD == 90
MAX_INTERRUPT_DEPTH == 3
MAX_REPUTATION == 100
PriorityScale == 200
URGENT_PRIORITY == 95
LOW_PRIORITY == 50

None == "None"
AgentNames == {"A", "B", "C"}
UnknownName == "Z"
Rosters == { <<"A">>, <<"A", "B">>, <<"A", "B", "C">> }
Priorities == {LOW_PRIORITY, URGENT_PRIORITY}
Outcomes == {"ok", "slow", "failed", "timeout"}

\* consensus engine: identifiers and message fields
DEFAULT_WEIGHT == 100
\* Python's None where the field is otherwise a number
NoTime == 0 - 1
Unset == 0 - 1
\* a proposal id that is not a key of the proposal table
Absent == [status |-> "absent", expires_at |-> NoTime]
MAX_WEIGHT == 100
\* the expires_at that create_proposal computed for a proposal with an expiry
ExpiryTime == 0
PIDs == {"P1"}
VoterIds == {"A", "B", "C", "D", "E"}
ProposalStatusValues == {"pending", "voting", "approved", "rejected", "expired"}
TerminalStatuses == {"approved", "rejected", "expired"}
VoteTypeValues == {"approve", "reject", "abstain"}
Bogus == "bogus"
Quorums == {50, 66, 100}
WeightInputs == {0, 20, 100}
WeightedIds == {"A", "C"}

\* bus: identifiers
Topics == {"global.bus", "agent.s1.in"}
SubscriberIds == {"s1", "s2"}

\* kernel (lyra_os/kernel/__init__.py)
KernelStates == << "initializing", "booting", "consensus", "running", "shutting_down" >>
KAgentIds == {"a1", "a2"}
\* bootstrap.yaml: the agents it lists and those of them that are required
\* (required defaults to true), or a file that _load_config rejects
InvalidConfig == [valid |-> FALSE, agents |-> {}, required |-> {}]
Configs == { [valid |-> TRUE, agents |-> S, required |-> R] :
               S \in SUBSET KAgentIds, R \in SUBSET KAgentIds } \cup {InvalidConfig}
EmptyBootstrap == [valid |-> TRUE, agents |-> {}, required |-> {}]
\* the public key a READY report carries: none, an empty string, or a key
Pubkeys == {None, "", "k1", "k2"}
\* the token after READY on a line of output: none, or a non-empty word
StdoutPubkeys == {None, "k1", "k2"}

VARIABLES
  \* ---- scheduler (Orchestrator and its CelayaAgent shells)
  agents,            \* Orchestrator.agents: the roster, in ring order
  running,           \* Orchestrator.running
  pc,                \* position of orchestrate(): idle, loop, speaking, sleeping, done
  turn_count,        \* local turn_count of orchestrate()
  current_agent,     \* local current_agent of orchestrate()
  turn_queue,        \* Orchestrator.turn_queue (deque, head = left end)
  token_holder,      \* Orchestrator.token_holder
  interrupt_heap,    \* Orchestrator.interrupt_heap: entries (-effective, time, agent)
  interrupt_depth,   \* Orchestrator.interrupt_depth
  paused_agents,     \* Orchestrator.paused_agents (deque, head = left end)
  timeout_count,     \* Orchestrator.timeout_count
  recent_errors,     \* Orchestrator.recent_errors
  reputation,        \* CelayaAgent.reputation, in hundredths
  leader,            \* Orchestrator.leader
  private_queue,     \* CelayaAgent.private_queue, one FIFO per agent
  central_queue,     \* Orchestrator.central_queue
  clock,             \* time.time() as seen by request_interrupt: a logical clock
  \* ---- history of the scheduler run (not program state)
  speakers,          \* the agent whose speak() was invoked, per turn
  calls,             \* the handler calls made by agents, with the turn they fell in
  faults,            \* number of turns that did not end with a clean reply
  prompt_context,    \* the messages put into the prompt of the turn in progress
  \* ---- consensus engine (ConsensusManager)
  quorum_threshold,  \* ConsensusManager.quorum_threshold, in hundredths
  proposals,         \* ConsensusManager.proposals: id -> record, Absent when not a key
  votes,             \* ConsensusManager.votes: id -> dict of votes, in insertion order
  agent_weights,     \* ConsensusManager.agent_weights: Unset when not a key
  now,               \* time.time() when the last message was handled
  vote_seq,          \* stands for uuid4(): the number of Vote objects created
  \* ---- history of the engine (not program state)
  emitted,           \* the consensus.event.* messages published by the last step
  handled,           \* what the last step handled and how it ended
  results,           \* per proposal record, the quorum results announced for it
  quorum_events,     \* per proposal id, the number of quorum_reached events published
  nmsgs,             \* number of bus messages handled
  nweights,          \* number of set_agent_weight calls
  \* ---- message bus (Bus)
  bus_queues,        \* Bus._queues: the mailbox of each id that has one
  bus_queue_ids,     \* the keys of Bus._queues
  bus_subscriptions, \* Bus._subscriptions: topic -> set of subscriber ids
  msg_seq,           \* stands for uuid4(): the number of Message objects created
  \* ---- history of the bus (not program state)
  published,         \* per publish call: message, topic, subscribers at the call
  received,          \* per subscriber, the messages get_message returned
  subscribe_calls,   \* per subscriber and topic, subscribe calls since the last unsubscribe
  nbusops,           \* number of subscribe, unsubscribe and create calls
  \* ---- kernel (KernelService)
  kstate,            \* KernelService.state
  config,            \* the content of the file at config_path
  bootstrap,         \* KernelService.bootstrap
  ready_agents,      \* KernelService.ready_agents
  all_ready,         \* KernelService.all_ready (asyncio.Event): is it set
  boot_pc,           \* position of boot(): idle, launching, waiting, awaiting, welcome, done, failed
  shutdown_pc,       \* position of shutdown(): idle, stopping, done
  consensus_running, \* ConsensusManager._running of the kernel's manager
  boot_status,       \* the BOOT_CONSENSUS proposal: none, published, voting, approved, rejected
  polls,             \* the number of 0.5 s sleeps await_consensus has made
  agent_pubkeys,     \* KernelService.agent_pubkeys: per agent, the key or None for no entry
  boot_proposal,     \* the content of the BOOT_CONSENSUS proposal, once created
  ready_log,         \* history: the READY reports handled so far, in order
  \* ---- ticker (Ticker)
  current_epoch,     \* Ticker.current_epoch
  ticker_running,    \* Ticker._running
  ticker_task,       \* Ticker._task: a task number, NoTask for None
  ticker_tasks,      \* the tasks created for _run(): none, new, sleeping, cancelling, done
  stop_waits,        \* the tasks that a suspended stop() call awaits
  \* ---- history of the ticker (not program state)
  ticks,             \* the epochs of the tick events published
  stopped,           \* a stop() call has returned and start() was not called since
  nstops,            \* number of stop() calls
  \* ---- ledger (Ledger)
  trust_weights,     \* Ledger.trust_weights, in hundredths: Unset when not a key
  trust_history,     \* Ledger.trust_history: per agent, the weights recorded
  \* ---- history of the ledger (not program state)
  cids,              \* the compute_consensus_cid calls made: input and result
  last_ledger_op,    \* the last trust weight call and the weight it found
  nledger,           \* number of Ledger calls
  \* ---- keyring (Keyring)
  mem_keys,          \* Keyring.private_keys and public_keys: entity -> key, NoKey when not a key
  keystore,          \* the file <entity>.json of the keystore: NoKey, CorruptFile or a key
  nkeys,             \* the number of key pairs generated so far
  \* ---- history of the keyring (not program state)
  last_sign,         \* the last sign call and what it returned
  last_verify,       \* the last verify call and how it ended
  nkeyring,          \* number of Keyring calls
  \* ---- the scheduler's ballot (Orchestrator, Layer 3)
  consensus_in_progress,
  consensus_votes,   \* proposal -> the names of the agents that approved
  \* ---- history of the ballot (not program state)
  ballot_log,        \* proposal -> the votes registered since its ballot started
  ballot_approved,   \* the proposals announced as approved since their ballot started
  nballot            \* number of ballot calls

schedVars == << agents, running, pc, turn_count, current_agent, turn_queue,
                token_holder, interrupt_heap, interrupt_depth, paused_agents,
                timeout_count, recent_errors, reputation, leader, private_queue,
                central_queue, clock, speakers, calls, faults,
                prompt_context >>

consVars == << quorum_threshold, proposals, votes, agent_weights, now,
               vote_seq, emitted, handled, results, quorum_events,
               nmsgs, nweights >>

busVars == << bus_queues, bus_queue_ids, bus_subscriptions, msg_seq,
              published, received, subscribe_calls, nbusops >>

kernelVars == << kstate, config, bootstrap, ready_agents, all_ready,
                 boot_pc, shutdown_pc, consensus_running, boot_status, polls,
                 agent_pubkeys, boot_proposal, ready_log >>

tickerVars == << current_epoch, ticker_running, ticker_task, ticker_tasks,
                 stop_waits, ticks, stopped, nstops >>

ledgerVars == << trust_weights, trust_history, cids, last_ledger_op, nledger >>

keyringVars == << mem_keys, keystore, nkeys, last_sign, last_verify, nkeyring >>

ballotVars == << consensus_in_progress, consensus_votes, ballot_log,
                ballot_approved, nballot >>

vars == << schedVars, consVars, busVars, kernelVars, tickerVars, ledgerVars,
           keyringVars, ballotVars >>

\* what the operations of one component leave alone
notSched == << consVars, busVars, kernelVars, tickerVars, ledgerVars,
  keyringVars, ballotVars >>
notCons == << schedVars, busVars, kernelVars, tickerVars, ledgerVars,
  keyringVars, ballotVars >>
notBus == << schedVars, consVars, kernelVars, tickerVars, ledgerVars,
  keyringVars, ballotVars >>
notKernel == << schedVars, consVars, busVars, tickerVars, ledgerVars,
  keyringVars, ballotVars >>
notTicker == << schedVars, consVars, busVars, kernelVars, ledgerVars,
  keyringVars, ballotVars >>
notKeyring == << schedVars, consVars, busVars, kernelVars, tickerVars, ledgerVars,
  ballotVars >>
notBallot == << consVars, busVars, kernelVars, tickerVars, ledgerVars, keyringVars >>
notLedger == << schedVars, consVars, busVars, kernelVars, tickerVars,
  keyringVars, ballotVars >>

\* ----------------------------------------------------------------- helpers
Max(a, b) == IF a >= b THEN a ELSE b
Min(a, b) == IF a <= b THEN a ELSE b
Range(s) == { s[i] : i \in 1..Len(s) }
Roster == Range(agents)

\* a removal that leaves the deque as it is
SeqRemoveNone(s, x) == s

RECURSIVE SeqRemoveFirst(_, _)
\* deque.remove(x): drop the first occurrence of x
SeqRemoveFirst(s, x) ==
  IF s = << >> THEN << >>
  ELSE IF Head(s) = x THEN Tail(s)
  ELSE << Head(s) >> \o SeqRemoveFirst(Tail(s), x)

\* ------------------------------------------------------- scheduler, pure
\* adjust_reputation without the clamp
adjust_reputation_unclamped(rep, a, change) ==
  [rep EXCEPT ![a] = rep[a] + change]

\* Orchestrator.adjust_reputation: clamp(reputation + change) to [0, 1]
adjust_reputation(rep, a, change) ==
  [rep EXCEPT ![a] = Max(0, Min(MAX_REPUTATION, rep[a] + change))]

\* time.time() - slice_start in _check_interrupts: slice_start is read by
\* orchestrate() in the statement before the call, with no suspension between
slice_elapsed == 0

\* the heap entry requested last
HeapLatest(heap) ==
  CHOOSE e \in heap : \A f \in heap : e.ts >= f.ts

\* interrupt_heap[0]: the least entry in tuple order (-effective, time)
HeapTop(heap) ==
  CHOOSE e \in heap : \A f \in heap :
      \/ e.negp < f.negp
      \/ (e.negp = f.negp /\ e.ts <= f.ts)

\* _check_interrupts with the interrupter not made token holder
_check_interrupts_keep_holder(heap, th, paused, depth) ==
  IF heap = {}
    THEN [handler |-> None, heap |-> heap, token_holder |-> th,
          paused_agents |-> paused, interrupt_depth |-> depth]
    ELSE LET top == HeapTop(heap)
             top_priority == 0 - top.negp
         IN IF slice_elapsed >= MIN_SLICE
               \/ top_priority >= PREEMPT_THRESHOLD * PriorityScale
              THEN [handler |-> top.agent,
                    heap |-> heap \ {top},
                    token_holder |-> th,
                    paused_agents |-> IF th # None THEN << th >> \o paused ELSE paused,
                    interrupt_depth |-> depth + 1]
              ELSE [handler |-> None, heap |-> heap, token_holder |-> th,
                    paused_agents |-> paused, interrupt_depth |-> depth]

\* _check_interrupts with the token holder not saved on the pause stack
_check_interrupts_no_pause(heap, th, paused, depth) ==
  IF heap = {}
    THEN [handler |-> None, heap |-> heap, token_holder |-> th,
          paused_agents |-> paused, interrupt_depth |-> depth]
    ELSE LET top == HeapTop(heap)
             top_priority == 0 - top.negp
         IN IF slice_elapsed >= MIN_SLICE
               \/ top_priority >= PREEMPT_THRESHOLD * PriorityScale
              THEN [handler |-> top.agent,
                    heap |-> heap \ {top},
                    token_holder |-> top.agent,
                    paused_agents |-> paused,
                    interrupt_depth |-> depth + 1]
              ELSE [handler |-> None, heap |-> heap, token_holder |-> th,
                    paused_agents |-> paused, interrupt_depth |-> depth]

\* Orchestrator._check_interrupts
\* result: the interrupter (or None) and the scheduler fields it changes
_check_interrupts(heap, th, paused, depth) ==
  IF heap = {}
    THEN [handler |-> None, heap |-> heap, token_holder |-> th,
          paused_agents |-> paused, interrupt_depth |-> depth]
    ELSE LET top == HeapTop(heap)
             top_priority == 0 - top.negp
         IN IF slice_elapsed >= MIN_SLICE
               \/ top_priority >= PREEMPT_THRESHOLD * PriorityScale
              THEN [handler |-> top.agent,
                    heap |-> heap \ {top},
                    token_holder |-> top.agent,
                    paused_agents |-> IF th # None THEN << th >> \o paused ELSE paused,
                    interrupt_depth |-> depth + 1]
              ELSE [handler |-> None, heap |-> heap, token_holder |-> th,
                    paused_agents |-> paused, interrupt_depth |-> depth]

\* _advance_token with the rotated agent not put back at the end of the ring
_advance_token_no_requeue(th, tq, paused, depth) ==
  IF paused # << >>
    THEN [token_holder |-> Head(paused), turn_queue |-> tq,
          paused_agents |-> Tail(paused), interrupt_depth |-> depth - 1]
    ELSE IF tq # << >>
      THEN [token_holder |-> Head(tq), turn_queue |-> Tail(tq),
            paused_agents |-> paused, interrupt_depth |-> depth]
      ELSE [token_holder |-> th, turn_queue |-> tq,
            paused_agents |-> paused, interrupt_depth |-> depth]

\* _advance_token resuming a paused agent without lowering interrupt_depth
_advance_token_keep_depth(th, tq, paused, depth) ==
  IF paused # << >>
    THEN [token_holder |-> Head(paused), turn_queue |-> tq,
          paused_agents |-> Tail(paused), interrupt_depth |-> depth]
    ELSE IF tq # << >>
      THEN [token_holder |-> Head(tq), turn_queue |-> Tail(tq) \o << Head(tq) >>,
            paused_agents |-> paused, interrupt_depth |-> depth]
      ELSE [token_holder |-> th, turn_queue |-> tq,
            paused_agents |-> paused, interrupt_depth |-> depth]

\* Orchestrator._advance_token
_advance_token(th, tq, paused, depth) ==
  IF paused # << >>
    THEN [token_holder |-> Head(paused), turn_queue |-> tq,
          paused_agents |-> Tail(paused), interrupt_depth |-> depth - 1]
    ELSE IF tq # << >>
      THEN [token_holder |-> Head(tq), turn_queue |-> Tail(tq) \o << Head(tq) >>,
            paused_agents |-> paused, interrupt_depth |-> depth]
      ELSE [token_holder |-> th, turn_queue |-> tq,
            paused_agents |-> paused, interrupt_depth |-> depth]

\* the first roster agent, whatever its reputation
FirstAgent(roster, rep) == roster[1]

\* max(self.agents, key=reputation): the first roster agent of maximal reputation
BestAgent(roster, rep) ==
  LET i == CHOOSE k \in 1..Len(roster) :
             /\ \A j \in 1..Len(roster) : rep[roster[j]] <= rep[roster[k]]
             /\ \A j \in 1..(k-1) : rep[roster[j]] < rep[roster[k]]
  IN roster[i]

\* _elect_leader without the early return for a leader already elected
_elect_leader_again(roster, ldr, rep, pq) ==
  LET best == BestAgent(roster, rep)
  IN [leader |-> best,
      private_queue |->
        [a \in AgentNames |->
           IF a \in Range(roster) /\ a # best
             THEN Append(pq[a], [sender |-> "Orchestrator", kind |-> "LEADER"])
             ELSE pq[a]]]

\* Orchestrator._elect_leader: result is the leader and the mailboxes
_elect_leader(roster, ldr, rep, pq) ==
  IF ldr # None
    THEN [leader |-> ldr, private_queue |-> pq]
    ELSE LET best == BestAgent(roster, rep)
         IN [leader |-> best,
             private_queue |->
               [a \in AgentNames |->
                  IF a \in Range(roster) /\ a # best
                    THEN Append(pq[a], [sender |-> "Orchestrator", kind |-> "LEADER"])
                    ELSE pq[a]]]

RECURSIVE check_messages(_, _)
\* CelayaAgent.check_messages: get() from the private queue until it is
\* empty, appending to messages
check_messages(queue, messages) ==
  IF queue = << >> THEN messages
  ELSE check_messages(Tail(queue), Append(messages, Head(queue)))

\* _process_central_queue handing the message to its sender as well
_process_central_queue_all(roster, cq, pq) ==
  IF cq = << >>
    THEN [central_queue |-> cq, private_queue |-> pq]
    ELSE [central_queue |-> Tail(cq),
          private_queue |->
            [a \in AgentNames |->
               IF a \in Range(roster)
                 THEN Append(pq[a], Head(cq))
                 ELSE pq[a]]]

\* Orchestrator._process_central_queue: fan the head of the central queue
\* out to every roster agent but its sender
_process_central_queue(roster, cq, pq) ==
  IF cq = << >>
    THEN [central_queue |-> cq, private_queue |-> pq]
    ELSE [central_queue |-> Tail(cq),
          private_queue |->
            [a \in AgentNames |->
               IF a \in Range(roster) /\ a # Head(cq).sender
                 THEN Append(pq[a], Head(cq))
                 ELSE pq[a]]]

\* ------------------------------------------------------------------- Init
SchedInitOf(rosters) ==
  /\ agents \in rosters
  /\ running = FALSE
  /\ pc = "idle"
  /\ turn_count = 0
  /\ current_agent = None
  /\ turn_queue = agents
  /\ token_holder = None
  /\ interrupt_heap = {}
  /\ interrupt_depth = 0
  /\ paused_agents = << >>
  /\ timeout_count = [a \in AgentNames |-> 0]
  /\ recent_errors = [a \in AgentNames |-> 0]
  /\ reputation = [a \in AgentNames |-> MAX_REPUTATION]
  /\ leader = None
  /\ private_queue = [a \in AgentNames |-> << >>]
  /\ prompt_context = << >>
  /\ central_queue = << >>
  /\ clock = 0
  /\ speakers = << >>
  /\ calls = << >>
  /\ faults = 0

\* the weight of the disturbances of the run so far: a handler call counts
\* 2, a turn that did not end with a clean reply counts 1
Events == 2 * Len(calls) + faults

\* the disturbances a run may see: more of them for a roster of one agent,
\* whose runs are few, so that one reputation can be driven down to 0
FaultBudget == IF Len(agents) = 1 THEN MaxSoloFaults ELSE MaxFaults
EventBudget == IF Len(agents) = 1 THEN MaxSoloEvents ELSE MaxEvents

RECURSIVE ReputationLost(_)
\* the reputation the agents of the roster have lost so far
ReputationLost(roster) ==
  IF roster = << >> THEN 0
  ELSE (MAX_REPUTATION - reputation[Head(roster)]) + ReputationLost(Tail(roster))

\* every disturbance of the run so far was a timeout (each costs 0.2) and no
\* handler was called: such runs may see MaxTimeouts timeouts, so that a
\* timeout count passes the election threshold again after an election
TimeoutsOnly ==
  /\ calls = << >>
  /\ ReputationLost(agents) = 20 * faults

\* ---------------------------------------------------- scheduler, actions
\* orchestrate(), up to the head of the turn loop
Orchestrate ==
  /\ pc = "idle"
  /\ running' = TRUE
  /\ turn_count' = 0
  /\ IF turn_queue # << >>
       THEN /\ token_holder' = Head(turn_queue)
            /\ turn_queue' = Tail(turn_queue) \o << Head(turn_queue) >>
       ELSE UNCHANGED << token_holder, turn_queue >>
  /\ pc' = "loop"
  /\ UNCHANGED notSched
  /\ UNCHANGED prompt_context
  /\ UNCHANGED << agents, current_agent, interrupt_heap, interrupt_depth,
                  paused_agents, timeout_count, recent_errors, reputation,
                  leader, private_queue, central_queue, clock, speakers,
                  calls, faults >>

\* one pass of the loop from its head to the await on speak()
BeginTurn ==
  /\ pc = "loop"
  /\ running /\ turn_count < MaxTurns
  /\ LET ci == _check_interrupts(interrupt_heap, token_holder,
                                 paused_agents, interrupt_depth)
         cur == IF ci.handler # None THEN ci.handler ELSE token_holder
     IN /\ turn_count' = turn_count + 1
        /\ interrupt_heap' = ci.heap
        /\ token_holder' = ci.token_holder
        /\ paused_agents' = ci.paused_agents
        /\ interrupt_depth' = ci.interrupt_depth
        /\ current_agent' = cur
        \* check_messages drains the speaker's mailbox into the prompt
        /\ private_queue' = [private_queue EXCEPT ![cur] = << >>]
        /\ prompt_context' = check_messages(private_queue[cur], << >>)
        /\ speakers' = Append(speakers, cur)
  /\ pc' = "speaking"
  /\ UNCHANGED notSched
  /\ UNCHANGED << agents, running, turn_queue, timeout_count, recent_errors,
                  reputation, leader, central_queue, clock, calls, faults >>

\* the rest of the pass: speak() returns or times out, the reply is
\* broadcast, the token advances, and the loop sleeps
EndTurn(outcome) ==
  /\ pc = "speaking"
  /\ outcome # "ok" =>
       \/ (faults < FaultBudget /\ Events + 1 <= EventBudget)
       \/ (outcome = "timeout" /\ TimeoutsOnly /\ faults < MaxTimeouts)
  /\ LET cur == current_agent
         rep1 == CASE outcome = "ok" -> reputation
                   [] outcome = "slow" -> adjust_reputation(reputation, cur, -5)
                   [] outcome = "failed" -> adjust_reputation(reputation, cur, -10)
                   [] outcome = "timeout" -> adjust_reputation(reputation, cur, -20)
         tc1 == IF outcome = "timeout"
                  THEN [timeout_count EXCEPT ![cur] = @ + 1]
                  ELSE [timeout_count EXCEPT ![cur] = 0]
         el == IF outcome = "timeout" /\ tc1[cur] >= 3
                 THEN _elect_leader(agents, leader, rep1, private_queue)
                 ELSE [leader |-> leader, private_queue |-> private_queue]
         cq1 == Append(central_queue, [sender |-> cur, kind |-> "RESPONSE"])
         pcq == _process_central_queue(agents, cq1, el.private_queue)
         adv == _advance_token(token_holder, turn_queue, paused_agents,
                               interrupt_depth)
     IN /\ reputation' = rep1
        /\ timeout_count' = tc1
        /\ leader' = el.leader
        /\ central_queue' = pcq.central_queue
        /\ private_queue' = pcq.private_queue
        /\ token_holder' = adv.token_holder
        /\ turn_queue' = adv.turn_queue
        /\ paused_agents' = adv.paused_agents
        /\ interrupt_depth' = adv.interrupt_depth
  /\ faults' = IF outcome = "ok" THEN faults ELSE faults + 1
  /\ pc' = "sleeping"
  /\ UNCHANGED notSched
  /\ prompt_context' = << >>
  /\ UNCHANGED << agents, running, turn_count, current_agent, interrupt_heap,
                  recent_errors, clock, speakers, calls >>

\* after sleep(0.5): the livelock check that closes the pass
AfterSleep ==
  /\ pc = "sleeping"
  /\ IF interrupt_depth > MAX_INTERRUPT_DEPTH
       THEN /\ interrupt_heap' = {}
            /\ interrupt_depth' = 0
       ELSE UNCHANGED << interrupt_heap, interrupt_depth >>
  /\ pc' = "loop"
  /\ UNCHANGED notSched
  /\ UNCHANGED prompt_context
  /\ UNCHANGED << agents, running, turn_count, current_agent, turn_queue,
                  token_holder, paused_agents, timeout_count, recent_errors,
                  reputation, leader, private_queue, central_queue, clock,
                  speakers, calls, faults >>

\* the loop condition fails: the finally block
Finish ==
  /\ pc = "loop"
  /\ ~(running /\ turn_count < MaxTurns)
  /\ running' = FALSE
  /\ pc' = "done"
  /\ UNCHANGED notSched
  /\ UNCHANGED prompt_context
  /\ UNCHANGED << agents, turn_count, current_agent, turn_queue, token_holder,
                  interrupt_heap, interrupt_depth, paused_agents, timeout_count,
                  recent_errors, reputation, leader, private_queue,
                  central_queue, clock, speakers, calls, faults >>

\* the suspension points of orchestrate() at which another task can run
Suspended == pc \in {"speaking", "sleeping"}

Called(op, a, arg) ==
  /\ Suspended
  /\ Len(calls) < MaxCalls
  /\ Events + 2 <= EventBudget
  /\ turn_count <= LastCallTurn
  /\ calls' = Append(calls, [op |-> op, agent |-> a, arg |-> arg,
                             turn |-> turn_count, at |-> pc,
                             holder |-> token_holder,
                             pending |-> interrupt_heap # {}])

\* Orchestrator.request_interrupt
request_interrupt(a, priority) ==
  /\ Called("interrupt", a, priority)
  /\ LET effective_priority == priority * (100 + reputation[a])
     IN interrupt_heap' = interrupt_heap \cup
          { [negp |-> 0 - effective_priority, ts |-> clock, agent |-> a] }
  /\ clock' = clock + 1
  /\ UNCHANGED notSched
  /\ UNCHANGED prompt_context
  /\ UNCHANGED << agents, running, pc, turn_count, current_agent, turn_queue,
                  token_holder, interrupt_depth, paused_agents, timeout_count,
                  recent_errors, reputation, leader, private_queue,
                  central_queue, speakers, faults >>

\* request_handoff transferring the token whoever the sender is
request_handoff_any_sender(sender, target_agent_name) ==
  /\ Called("handoff", sender, target_agent_name)
  /\ IF target_agent_name \notin Roster
       THEN UNCHANGED << token_holder, turn_queue, private_queue >>
       ELSE /\ token_holder' = target_agent_name
            /\ turn_queue' = << target_agent_name >> \o
                 SeqRemoveFirst(turn_queue, target_agent_name)
            /\ private_queue' = [private_queue EXCEPT ![target_agent_name] =
                 Append(@, [sender |-> sender, kind |-> "HANDOFF"])]
  /\ UNCHANGED notSched
  /\ UNCHANGED prompt_context
  /\ UNCHANGED << agents, running, pc, turn_count, current_agent,
                  interrupt_heap, interrupt_depth, paused_agents, timeout_count,
                  recent_errors, reputation, leader, central_queue, clock,
                  speakers, faults >>

\* the value request_handoff returns
request_handoff_result(target_agent_name) == target_agent_name \in Roster

\* Orchestrator.request_handoff
request_handoff(sender, target_agent_name) ==
  /\ Called("handoff", sender, target_agent_name)
  /\ IF target_agent_name \notin Roster
       THEN UNCHANGED << token_holder, turn_queue, private_queue >>
       ELSE /\ IF token_holder = sender
                 THEN /\ token_holder' = target_agent_name
                      /\ turn_queue' = << target_agent_name >> \o
                           SeqRemoveFirst(turn_queue, target_agent_name)
                 ELSE UNCHANGED << token_holder, turn_queue >>
            /\ private_queue' = [private_queue EXCEPT ![target_agent_name] =
                 Append(@, [sender |-> sender, kind |-> "HANDOFF"])]
  /\ UNCHANGED notSched
  /\ UNCHANGED prompt_context
  /\ UNCHANGED << agents, running, pc, turn_count, current_agent,
                  interrupt_heap, interrupt_depth, paused_agents, timeout_count,
                  recent_errors, reputation, leader, central_queue, clock,
                  speakers, faults >>

\* Orchestrator.handle_complete
handle_complete(a) ==
  /\ Called("complete", a, None)
  /\ IF token_holder = a
       THEN LET adv == _advance_token(token_holder, turn_queue, paused_agents,
                                      interrupt_depth)
            IN /\ token_holder' = adv.token_holder
               /\ turn_queue' = adv.turn_queue
               /\ paused_agents' = adv.paused_agents
               /\ interrupt_depth' = adv.interrupt_depth
       ELSE UNCHANGED << token_holder, turn_queue, paused_agents, interrupt_depth >>
  /\ UNCHANGED notSched
  /\ UNCHANGED prompt_context
  /\ UNCHANGED << agents, running, pc, turn_count, current_agent,
                  interrupt_heap, timeout_count, recent_errors, reputation,
                  leader, private_queue, central_queue, clock, speakers, faults >>

\* Orchestrator.handle_error
handle_error(a) ==
  /\ Called("error", a, None)
  /\ LET re1 == [recent_errors EXCEPT ![a] = @ + 1]
         rep1 == adjust_reputation(reputation, a, -10)
         el == IF re1[a] >= 3
                 THEN _elect_leader(agents, leader, rep1, private_queue)
                 ELSE [leader |-> leader, private_queue |-> private_queue]
     IN /\ recent_errors' = re1
        /\ reputation' = rep1
        /\ leader' = el.leader
        /\ private_queue' = el.private_queue
  /\ UNCHANGED notSched
  /\ UNCHANGED prompt_context
  /\ UNCHANGED << agents, running, pc, turn_count, current_agent, turn_queue,
                  token_holder, interrupt_heap, interrupt_depth, paused_agents,
                  timeout_count, central_queue, clock, speakers, faults >>

SchedNext ==
  \/ Orchestrate
  \/ BeginTurn
  \/ \E o \in Outcomes : EndTurn(o)
  \/ AfterSleep
  \/ Finish
  \/ \E a \in Roster, p \in Priorities : request_interrupt(a, p)
  \/ \E a \in Roster, t \in AgentNames \cup {UnknownName} : request_handoff(a, t)
  \/ \E a \in Roster : handle_complete(a)
  \/ \E a \in Roster : handle_error(a)


\* ---------------------------------------------------- consensus, pure
\* self.agent_weights.get(agent_id, 1.0)
weight_of(weights, a) == IF weights[a] = Unset THEN DEFAULT_WEIGHT ELSE weights[a]

RECURSIVE weight_sum(_, _, _)
\* the accumulation loop of _check_consensus over list(votes.values()),
\* restricted to the votes whose type is in types
weight_sum(vs, weights, types) ==
  IF vs = << >> THEN 0
  ELSE (IF Head(vs).vote_type \in types THEN weight_of(weights, Head(vs).agent_id) ELSE 0)
       + weight_sum(Tail(vs), weights, types)

approve_weight(vs, weights) == weight_sum(vs, weights, {"approve"})
reject_weight(vs, weights) == weight_sum(vs, weights, {"reject"})
\* the total taken over the APPROVE and REJECT votes only
total_weight_decisive(vs, weights) == weight_sum(vs, weights, {"approve", "reject"})
total_weight(vs, weights) == weight_sum(vs, weights, VoteTypeValues)

\* the quorum test with a strict comparison
ratio_reached_strict(x, total, q) == x * 100 > q * total

\* x / total >= quorum_threshold, for total > 0, in hundredths
ratio_reached(x, total, q) == x * 100 >= q * total

\* ConsensusManager._update_proposal_status
\* result: the proposal table and the events published
_update_proposal_status(props, pid, new_status) ==
  IF props[pid] = Absent \/ props[pid].status = new_status
    THEN [proposals |-> props, events |-> << >>]
    ELSE [proposals |-> [props EXCEPT ![pid].status = new_status],
          events |-> << [type |-> "status_changed", proposal_id |-> pid,
                         old_status |-> props[pid].status,
                         new_status |-> new_status] >>]

\* ConsensusManager._check_consensus
\* result: the proposal table and the events published
_check_consensus(props, vts, weights, q, pid) ==
  LET vs == vts[pid]
      quiet == [proposals |-> props, events |-> << >>]
  IN IF props[pid] = Absent THEN quiet
     ELSE IF vs = << >> THEN quiet
     ELSE IF total_weight(vs, weights) = 0 THEN quiet
     ELSE IF ratio_reached(approve_weight(vs, weights), total_weight(vs, weights), q)
       THEN LET u == _update_proposal_status(props, pid, "approved")
            IN [proposals |-> u.proposals,
                events |-> u.events \o << [type |-> "quorum_reached",
                                           proposal_id |-> pid,
                                           result |-> "approve"] >>]
     ELSE IF ratio_reached(reject_weight(vs, weights), total_weight(vs, weights), q)
       THEN LET u == _update_proposal_status(props, pid, "rejected")
            IN [proposals |-> u.proposals,
                events |-> u.events \o << [type |-> "quorum_reached",
                                           proposal_id |-> pid,
                                           result |-> "reject"] >>]
     ELSE quiet

RECURSIVE HasKey(_, _)
HasKey(vs, a) ==
  IF vs = << >> THEN FALSE
  ELSE Head(vs).agent_id = a \/ HasKey(Tail(vs), a)

\* the vote table as a list that keeps every vote
dict_set_append(vs, vote) == Append(vs, vote)

\* self.votes[proposal_id][agent_id] = vote: a dict keeps one value per key,
\* at the key's first position
dict_set(vs, vote) ==
  IF HasKey(vs, vote.agent_id)
    THEN [i \in 1..Len(vs) |->
            IF vs[i].agent_id = vote.agent_id THEN vote ELSE vs[i]]
    ELSE Append(vs, vote)

\* vote_data.get("agent_id") or message.sender_id
voter_of(msg) == IF msg.agent_id # None THEN msg.agent_id ELSE msg.sender_id

\* the validation without the test of the proposal's status
vote_disposition_any_status(props, msg) ==
  IF ~msg.is_dict THEN "malformed"
  ELSE IF msg.proposal_id = None \/ voter_of(msg) = None \/ msg.vote_type = None
    THEN "missing"
  ELSE IF props[msg.proposal_id] = Absent THEN "unknown"
  ELSE IF msg.vote_type \notin VoteTypeValues THEN "bad_type"
  ELSE "accepted"

\* the validation of _handle_vote: which return the message takes
vote_disposition(props, msg) ==
  IF ~msg.is_dict THEN "malformed"
  ELSE IF msg.proposal_id = None \/ voter_of(msg) = None \/ msg.vote_type = None
    THEN "missing"
  ELSE IF props[msg.proposal_id] = Absent THEN "unknown"
  ELSE IF props[msg.proposal_id].status # "voting" THEN "not_voting"
  ELSE IF msg.vote_type \notin VoteTypeValues THEN "bad_type"
  ELSE "accepted"

\* Proposal.from_dict succeeds: Proposal(**data) needs an id, ProposalStatus(s)
\* a status value
proposal_parses(msg) ==
  msg.is_dict /\ msg.id # None /\ msg.status \in ProposalStatusValues

\* ------------------------------------------------- consensus, messages
NoFields == [is_dict |-> FALSE, proposal_id |-> None, agent_id |-> None,
             sender_id |-> None, vote_type |-> None]

\* what can arrive on consensus.vote: the messages of cast_vote, and
\* messages published by others with fields left out
VoteMsgs ==
  { [is_dict |-> TRUE, proposal_id |-> p, agent_id |-> a, sender_id |-> a,
     vote_type |-> t] : p \in PIDs, a \in VoterIds, t \in VoteTypeValues }
  \cup { [is_dict |-> TRUE, proposal_id |-> p, agent_id |-> "A", sender_id |-> "A",
          vote_type |-> Bogus] : p \in PIDs }
  \cup { [is_dict |-> TRUE, proposal_id |-> p, agent_id |-> None, sender_id |-> sd,
          vote_type |-> "approve"] : p \in PIDs, sd \in {None, "A"} }
  \cup { [is_dict |-> TRUE, proposal_id |-> p, agent_id |-> "A", sender_id |-> "A",
          vote_type |-> None] : p \in PIDs }
  \cup { [is_dict |-> TRUE, proposal_id |-> None, agent_id |-> "A", sender_id |-> "A",
          vote_type |-> "approve"] }
  \cup { NoFields }

\* what can arrive on consensus.proposal: the messages of create_proposal
\* (status pending), and messages published by others
ProposalMsgs ==
  { [is_dict |-> TRUE, id |-> p, status |-> st, expires_at |-> e] :
      p \in PIDs, st \in {"pending", "approved", Bogus}, e \in {NoTime, ExpiryTime} }
  \cup { [is_dict |-> TRUE, id |-> None, status |-> "pending", expires_at |-> NoTime],
         [is_dict |-> FALSE, id |-> None, status |-> None, expires_at |-> NoTime] }

Idle == [kind |-> "none", result |-> None, pid |-> None, agent |-> None,
         vote_type |-> None, replaced |-> FALSE]

\* ------------------------------------------------------- consensus, Init
ConsInitOf(quorums) ==
  /\ quorum_threshold \in quorums
  /\ proposals = [p \in PIDs |-> Absent]
  /\ votes = [p \in PIDs |-> << >>]
  /\ agent_weights = [a \in VoterIds |-> Unset]
  /\ now = 0
  /\ vote_seq = 0
  /\ emitted = << >>
  /\ handled = Idle
  /\ results = [p \in PIDs |-> {}]
  /\ quorum_events = [p \in PIDs |-> 0]
  /\ nmsgs = 0
  /\ nweights = 0

QuorumEvents(events) ==
  { j \in 1..Len(events) : events[j].type = "quorum_reached" }

QuorumResults(events) ==
  { events[i].result : i \in { j \in 1..Len(events) : events[j].type = "quorum_reached" } }

\* ---------------------------------------------------- consensus, actions
Times == 0..MaxTime

\* the number of messages a run is followed for: one with the default quorum,
\* no weight set and no time passing is followed further than the others
DEFAULT_QUORUM == 66
MsgBudget(t) ==
  IF quorum_threshold = DEFAULT_QUORUM /\ nweights = 0 /\ t = 0
    THEN MaxPlainMsgs ELSE MaxMsgs

\* _process_messages takes one more message off the queue, at time t; the
\* clock does not run backwards
Delivered(t) ==
  /\ nmsgs < MsgBudget(t)
  /\ nmsgs + nweights < MaxConsEvents
  /\ nmsgs' = nmsgs + 1
  /\ t >= now
  /\ now' = t

\* ConsensusManager._handle_proposal, for one message of consensus.proposal
_handle_proposal(msg, t) ==
  /\ Delivered(t)
  /\ IF ~proposal_parses(msg)
       THEN /\ UNCHANGED << proposals, votes, results >>
            /\ emitted' = << >>
            /\ handled' = [Idle EXCEPT !.kind = "proposal", !.result = "discarded",
                                       !.pid = msg.id]
       ELSE LET stored == [proposals EXCEPT ![msg.id] =
                             [status |-> msg.status,
                              expires_at |-> msg.expires_at]]
                u == _update_proposal_status(stored, msg.id, "voting")
            IN /\ proposals' = u.proposals
               /\ votes' = [votes EXCEPT ![msg.id] = << >>]
               /\ emitted' = << [type |-> "proposal_created", proposal_id |-> msg.id] >>
                               \o u.events
               /\ results' = [results EXCEPT ![msg.id] = {}]
               /\ handled' = [Idle EXCEPT !.kind = "proposal", !.result = "stored",
                                          !.pid = msg.id]
  /\ UNCHANGED << quorum_threshold, agent_weights, vote_seq, nweights,
                  quorum_events >>
  /\ UNCHANGED notCons

\* ConsensusManager._handle_vote, for one message of consensus.vote
_handle_vote(msg, t) ==
  /\ Delivered(t)
  /\ LET disp == vote_disposition(proposals, msg)
     IN IF disp # "accepted"
          THEN /\ UNCHANGED << proposals, votes, vote_seq, results, quorum_events >>
               /\ emitted' = << >>
               /\ handled' = [Idle EXCEPT !.kind = "vote", !.result = disp,
                                          !.pid = msg.proposal_id]
          ELSE LET pid == msg.proposal_id
                   vote == [id |-> vote_seq, agent_id |-> voter_of(msg),
                            vote_type |-> msg.vote_type, timestamp |-> t]
                   vts == [votes EXCEPT ![pid] = dict_set(@, vote)]
                   cc == _check_consensus(proposals, vts, agent_weights,
                                          quorum_threshold, pid)
               IN /\ votes' = vts
                  /\ vote_seq' = vote_seq + 1
                  /\ proposals' = cc.proposals
                  /\ emitted' = << [type |-> "vote_received", proposal_id |-> pid] >>
                                  \o cc.events
                  /\ results' = [results EXCEPT ![pid] = @ \cup QuorumResults(cc.events)]
                  /\ quorum_events' = [quorum_events EXCEPT ![pid] =
                                         @ + Cardinality(QuorumEvents(cc.events))]
                  /\ handled' = [kind |-> "vote", result |-> "accepted", pid |-> pid,
                                 agent |-> vote.agent_id, vote_type |-> vote.vote_type,
                                 replaced |-> HasKey(votes[pid], vote.agent_id)]
  /\ UNCHANGED << quorum_threshold, agent_weights, nweights >>
  /\ UNCHANGED notCons

\* ConsensusManager.set_agent_weight
set_agent_weight(a, weight) ==
  /\ nweights < MaxWeightSets
  /\ nmsgs + nweights < MaxConsEvents
  /\ nweights' = nweights + 1
  /\ agent_weights' = [agent_weights EXCEPT ![a] = Max(0, Min(MAX_WEIGHT, weight))]
  /\ emitted' = << >>
  /\ handled' = [Idle EXCEPT !.kind = "weight"]
  /\ UNCHANGED << quorum_threshold, proposals, votes, now, vote_seq, results,
                  quorum_events, nmsgs >>
  /\ UNCHANGED notCons

ConsNext ==
  \/ \E m \in ProposalMsgs, t \in Times : _handle_proposal(m, t)
  \/ \E m \in VoteMsgs, t \in Times : _handle_vote(m, t)
  \/ \E a \in WeightedIds, w \in WeightInputs : set_agent_weight(a, w)


\* ------------------------------------------------------------------ bus
\* asyncio.Queue.put_nowait at the wrong end
put_front(q, m) == << m >> \o q

\* asyncio.Queue.put_nowait on an unbounded queue
put_nowait(q, m) == Append(q, m)

\* Bus.__init__: no queue, and the global topic without subscribers (a topic
\* that is not a key of _subscriptions behaves as one without subscribers)
BusInit ==
  /\ bus_queues = [sb \in SubscriberIds |-> << >>]
  /\ bus_queue_ids = {}
  /\ bus_subscriptions = [tp \in Topics |-> {}]
  /\ msg_seq = 0
  /\ published = << >>
  /\ received = [sb \in SubscriberIds |-> << >>]
  /\ subscribe_calls = [sb \in SubscriberIds |-> [tp \in Topics |-> 0]]
  /\ nbusops = 0

BusOp ==
  /\ nbusops < MaxBusOps
  /\ nbusops' = nbusops + 1

\* Bus.create_private_queue
create_private_queue(queue_id) ==
  /\ BusOp
  /\ bus_queue_ids' = bus_queue_ids \cup {queue_id}
  /\ UNCHANGED << bus_queues, bus_subscriptions, msg_seq, published, received,
                  subscribe_calls >>
  /\ UNCHANGED notBus

\* Bus.subscribe
subscribe(subscriber_id, topic) ==
  /\ BusOp
  /\ bus_subscriptions' = [bus_subscriptions EXCEPT ![topic] = @ \cup {subscriber_id}]
  /\ bus_queue_ids' = bus_queue_ids \cup {subscriber_id}
  /\ subscribe_calls' = [subscribe_calls EXCEPT ![subscriber_id][topic] = Min(@ + 1, 2)]
  /\ UNCHANGED << bus_queues, msg_seq, published, received >>
  /\ UNCHANGED notBus

\* Bus.unsubscribe
unsubscribe(subscriber_id, topic) ==
  /\ BusOp
  /\ bus_subscriptions' = [bus_subscriptions EXCEPT ![topic] = @ \ {subscriber_id}]
  /\ subscribe_calls' = [subscribe_calls EXCEPT ![subscriber_id][topic] = 0]
  /\ UNCHANGED << bus_queues, bus_queue_ids, msg_seq, published, received >>
  /\ UNCHANGED notBus

\* a publish that enqueues into every existing mailbox
publish_to_all(topic) ==
  /\ Len(published) < MaxPublish
  /\ LET message == [id |-> msg_seq, topic |-> topic]
     IN /\ bus_queues' =
             [sb \in SubscriberIds |->
                IF sb \in bus_queue_ids
                  THEN put_nowait(bus_queues[sb], message)
                  ELSE bus_queues[sb]]
        /\ published' = Append(published,
             [message |-> message, subscribers |-> bus_subscriptions[topic],
              twice |-> {sb \in SubscriberIds : subscribe_calls[sb][topic] >= 2}])
  /\ msg_seq' = msg_seq + 1
  /\ UNCHANGED << bus_queue_ids, bus_subscriptions, received, subscribe_calls,
                  nbusops >>
  /\ UNCHANGED notBus

\* Bus.publish (the handler tasks it spawns do not touch the bus)
publish(topic) ==
  /\ Len(published) < MaxPublish
  /\ LET message == [id |-> msg_seq, topic |-> topic]
     IN /\ bus_queues' =
             [sb \in SubscriberIds |->
                IF sb \in bus_subscriptions[topic] /\ sb \in bus_queue_ids
                  THEN put_nowait(bus_queues[sb], message)
                  ELSE bus_queues[sb]]
        /\ published' = Append(published,
             [message |-> message, subscribers |-> bus_subscriptions[topic],
              twice |-> {sb \in SubscriberIds : subscribe_calls[sb][topic] >= 2}])
  /\ msg_seq' = msg_seq + 1
  /\ UNCHANGED << bus_queue_ids, bus_subscriptions, received, subscribe_calls,
                  nbusops >>
  /\ UNCHANGED notBus

\* Bus.get_message, once the awaited queue.get() has a message to return
get_message(subscriber_id) ==
  /\ subscriber_id \in bus_queue_ids
  /\ bus_queues[subscriber_id] # << >>
  /\ received' = [received EXCEPT ![subscriber_id] =
                    Append(@, Head(bus_queues[subscriber_id]))]
  /\ bus_queues' = [bus_queues EXCEPT ![subscriber_id] = Tail(@)]
  /\ UNCHANGED << bus_queue_ids, bus_subscriptions, msg_seq, published,
                  subscribe_calls, nbusops >>
  /\ UNCHANGED notBus

BusNext ==
  \/ \E q \in SubscriberIds : create_private_queue(q)
  \/ \E sb \in SubscriberIds, tp \in Topics : subscribe(sb, tp)
  \/ \E sb \in SubscriberIds, tp \in Topics : unsubscribe(sb, tp)
  \/ \E tp \in Topics : publish(tp)
  \/ \E sb \in SubscriberIds : get_message(sb)

\* --------------------------------------------------------------- kernel
\* the required agents of the loaded bootstrap record
required_agents == bootstrap.required \cap bootstrap.agents

\* _check_all_agents_ready: is all_ready set once ready is the ready set
_check_all_agents_ready(ready) == all_ready \/ required_agents \subseteq ready

\* KernelService.__init__ (bootstrap = [], nothing ready, event clear), with
\* the file boot() will read
KernelInitOf(configs) ==
  /\ kstate = "initializing"
  /\ config \in configs
  /\ bootstrap = EmptyBootstrap
  /\ ready_agents = {}
  /\ all_ready = FALSE
  /\ boot_pc = "idle"
  /\ shutdown_pc = "idle"
  /\ consensus_running = FALSE
  /\ boot_status = "none"
  /\ polls = 0
  /\ agent_pubkeys = [a \in KAgentIds |-> None]
  /\ boot_proposal = [made |-> FALSE, agents |-> {}]
  /\ ready_log = << >>

\* boot() up to its first suspension in _launch_agents: BOOTING, the
\* configuration, the queues, consensus.start() and ticker.start()
BootStart ==
  /\ boot_pc = "idle"
  /\ kstate' = "booting"
  /\ IF config.valid
       THEN /\ bootstrap' = config
            /\ consensus_running' = TRUE
            /\ boot_pc' = "launching"
       ELSE /\ boot_pc' = "failed"
            /\ UNCHANGED << bootstrap, consensus_running >>
  /\ UNCHANGED << config, ready_agents, all_ready, shutdown_pc,
                  boot_status, polls >>
  /\ UNCHANGED << agent_pubkeys, boot_proposal, ready_log >>
  /\ UNCHANGED notKernel

\* _launch_agents returns and boot() reaches wait_for_all_ready
LaunchAgents ==
  /\ boot_pc = "launching"
  /\ boot_pc' = "waiting"
  /\ UNCHANGED << kstate, config, bootstrap, ready_agents, all_ready,
                  shutdown_pc, consensus_running, boot_status, polls >>
  /\ UNCHANGED << agent_pubkeys, boot_proposal, ready_log >>
  /\ UNCHANGED notKernel

\* KernelService.propose_boot_consensus: the content of the proposal
propose_boot_consensus == [made |-> TRUE, agents |-> ready_agents]

\* all_ready.wait() returns: CONSENSUS, propose_boot_consensus, and the
\* start of await_consensus
EnterConsensus ==
  /\ boot_pc = "waiting"
  /\ all_ready
  /\ kstate' = "consensus"
  /\ boot_status' = "published"
  /\ boot_proposal' = propose_boot_consensus
  /\ polls' = 0
  /\ boot_pc' = "awaiting"
  /\ UNCHANGED << config, bootstrap, ready_agents, all_ready,
                  shutdown_pc, consensus_running >>
  /\ UNCHANGED << agent_pubkeys, ready_log >>
  /\ UNCHANGED notKernel

\* one pass of the loop of await_consensus, or its exit on timeout
await_consensus ==
  /\ boot_pc = "awaiting"
  /\ IF polls < AwaitPolls
       THEN IF boot_status \in {"approved", "rejected"}
              THEN boot_pc' = "welcome" /\ UNCHANGED polls
              ELSE polls' = polls + 1 /\ UNCHANGED boot_pc
       ELSE boot_pc' = "welcome" /\ UNCHANGED polls
  /\ UNCHANGED << kstate, config, bootstrap, ready_agents, all_ready,
                  shutdown_pc, consensus_running, boot_status >>
  /\ UNCHANGED << agent_pubkeys, boot_proposal, ready_log >>
  /\ UNCHANGED notKernel

\* welcome() returns: RUNNING
EnterRunning ==
  /\ boot_pc = "welcome"
  /\ kstate' = "running"
  /\ boot_pc' = "done"
  /\ UNCHANGED << config, bootstrap, ready_agents, all_ready,
                  shutdown_pc, consensus_running, boot_status, polls >>
  /\ UNCHANGED << agent_pubkeys, boot_proposal, ready_log >>
  /\ UNCHANGED notKernel

\* shutdown() up to its suspension in ticker.stop()
shutdown ==
  /\ shutdown_pc = "idle"
  /\ kstate' = "shutting_down"
  /\ shutdown_pc' = "stopping"
  /\ UNCHANGED << config, bootstrap, ready_agents, all_ready,
                  boot_pc, consensus_running, boot_status, polls >>
  /\ UNCHANGED << agent_pubkeys, boot_proposal, ready_log >>
  /\ UNCHANGED notKernel

\* the rest of shutdown(): consensus.stop() and the agent processes
ShutdownFinish ==
  /\ shutdown_pc = "stopping"
  /\ consensus_running' = FALSE
  /\ shutdown_pc' = "done"
  /\ UNCHANGED << kstate, config, bootstrap, ready_agents, all_ready,
                  boot_pc, boot_status, polls >>
  /\ UNCHANGED << agent_pubkeys, boot_proposal, ready_log >>
  /\ UNCHANGED notKernel

\* _mark_agent_ready recording the key of every READY it is given
_mark_agent_ready_overwrite(agent_id, pubkey) ==
  /\ IF agent_id \in ready_agents
       THEN UNCHANGED << ready_agents, all_ready >>
       ELSE /\ ready_agents' = ready_agents \cup {agent_id}
            /\ all_ready' = _check_all_agents_ready(ready_agents \cup {agent_id})
  /\ agent_pubkeys' = IF pubkey \notin {None, ""}
                        THEN [agent_pubkeys EXCEPT ![agent_id] = pubkey]
                        ELSE agent_pubkeys

\* KernelService._mark_agent_ready
_mark_agent_ready(agent_id, pubkey) ==
  IF agent_id \in ready_agents
    THEN UNCHANGED << ready_agents, all_ready, agent_pubkeys >>
    ELSE /\ ready_agents' = ready_agents \cup {agent_id}
         /\ agent_pubkeys' = IF pubkey \notin {None, ""}
                               THEN [agent_pubkeys EXCEPT ![agent_id] = pubkey]
                               ELSE agent_pubkeys
         /\ all_ready' = _check_all_agents_ready(ready_agents \cup {agent_id})

\* a READY report is handled
ReadyReport(source, agent_id, pubkey) ==
  /\ Len(ready_log) < MaxReadyReports
  /\ ready_log' = Append(ready_log,
       [source |-> source, agent_id |-> agent_id, pubkey |-> pubkey])

\* KernelService._handle_global_message for a READY payload on global.bus
\* (the handler is registered by __init__)
_handle_global_message(agent_id, pubkey) ==
  /\ ReadyReport("bus", agent_id, pubkey)
  /\ _mark_agent_ready(agent_id, pubkey)
  /\ UNCHANGED << kstate, config, bootstrap, boot_pc, shutdown_pc,
                  consensus_running, boot_status, polls, boot_proposal >>
  /\ UNCHANGED notKernel

\* KernelService._monitor_agent_output for a READY line of the process
\* that _launch_agents started for the agent
_monitor_agent_output(agent_id, pubkey) ==
  /\ boot_pc \in {"waiting", "awaiting", "welcome", "done"}
  /\ shutdown_pc # "done"
  /\ agent_id \in bootstrap.agents
  /\ ReadyReport("stdout", agent_id, pubkey)
  /\ _mark_agent_ready(agent_id, pubkey)
  /\ UNCHANGED << kstate, config, bootstrap, boot_pc, shutdown_pc,
                  consensus_running, boot_status, polls, boot_proposal >>
  /\ UNCHANGED notKernel

\* the kernel's consensus manager takes the boot proposal off its queue
\* (_handle_proposal) or closes it (_check_consensus after a vote)
BootProposalStep(result) ==
  /\ consensus_running
  /\ \/ boot_status = "published" /\ result = "voting"
     \/ boot_status = "voting" /\ result \in {"approved", "rejected"}
  /\ boot_status' = result
  /\ UNCHANGED << kstate, config, bootstrap, ready_agents, all_ready,
                  boot_pc, shutdown_pc, consensus_running, polls >>
  /\ UNCHANGED << agent_pubkeys, boot_proposal, ready_log >>
  /\ UNCHANGED notKernel

KernelNext ==
  \/ BootStart
  \/ LaunchAgents
  \/ EnterConsensus
  \/ await_consensus
  \/ EnterRunning
  \/ shutdown
  \/ ShutdownFinish
  \/ \E a \in KAgentIds, k \in Pubkeys : _handle_global_message(a, k)
  \/ \E a \in KAgentIds, k \in StdoutPubkeys : _monitor_agent_output(a, k)
  \/ \E r \in {"voting", "approved", "rejected"} : BootProposalStep(r)

\* --------------------------------------------------------------- ticker
NoTask == 0
TaskIds == 1..MaxTasks

\* an epoch that does not move
epoch_stuck(e) == e

\* self.current_epoch += 1
epoch_after_tick(e) == e + 1

\* Ticker.__init__
TickerInit ==
  /\ current_epoch = 0
  /\ ticker_running = FALSE
  /\ ticker_task = NoTask
  /\ ticker_tasks = [t \in TaskIds |-> "none"]
  /\ stop_waits = {}
  /\ ticks = << >>
  /\ stopped = FALSE
  /\ nstops = 0

\* Ticker.start
start ==
  /\ IF ticker_running
       THEN UNCHANGED << ticker_running, ticker_task, ticker_tasks >>
       ELSE \E t \in TaskIds :
              /\ ticker_tasks[t] = "none"
              /\ \A u \in TaskIds : u < t => ticker_tasks[u] # "none"
              /\ ticker_running' = TRUE
              /\ ticker_tasks' = [ticker_tasks EXCEPT ![t] = "new"]
              /\ ticker_task' = t
  /\ stopped' = FALSE
  /\ UNCHANGED << current_epoch, stop_waits, ticks, nstops >>
  /\ UNCHANGED notTicker

\* Ticker.stop up to its return or to its suspension in 'await self._task'
\* (awaiting a task that is already done does not suspend)
stop ==
  /\ nstops < MaxStops
  /\ nstops' = nstops + 1
  /\ IF ~ticker_running
       THEN /\ stopped' = TRUE
            /\ UNCHANGED << ticker_running, ticker_task, ticker_tasks, stop_waits >>
       ELSE /\ ticker_running' = FALSE
            /\ IF ticker_task = NoTask
                 THEN /\ stopped' = TRUE
                      /\ UNCHANGED << ticker_task, ticker_tasks, stop_waits >>
                 ELSE IF ticker_tasks[ticker_task] = "done"
                   THEN /\ ticker_task' = NoTask
                        /\ stopped' = TRUE
                        /\ UNCHANGED << ticker_tasks, stop_waits >>
                   ELSE /\ ticker_tasks' = [ticker_tasks EXCEPT ![ticker_task] = "cancelling"]
                        /\ stop_waits' = stop_waits \cup {ticker_task}
                        /\ UNCHANGED << ticker_task, stopped >>
  /\ UNCHANGED << current_epoch, ticks >>
  /\ UNCHANGED notTicker

\* the rest of Ticker.stop once the awaited task t has ended
StopReturns(t) ==
  /\ t \in stop_waits
  /\ ticker_tasks[t] = "done"
  /\ stop_waits' = stop_waits \ {t}
  /\ ticker_task' = NoTask
  /\ stopped' = TRUE
  /\ UNCHANGED << current_epoch, ticker_running, ticker_tasks, ticks, nstops >>
  /\ UNCHANGED notTicker

\* Ticker._run: task t is scheduled, for the first time or after its sleep;
\* a cancelled task ends, another one tests _running and ticks or ends
_run(t) ==
  /\ ticker_tasks[t] \in {"new", "sleeping", "cancelling"}
  /\ IF ticker_tasks[t] # "cancelling" /\ ticker_running
       THEN /\ Len(ticks) < MaxTicks
            /\ ticks' = Append(ticks, current_epoch)
            /\ current_epoch' = epoch_after_tick(current_epoch)
            /\ ticker_tasks' = [ticker_tasks EXCEPT ![t] = "sleeping"]
       ELSE /\ ticker_tasks' = [ticker_tasks EXCEPT ![t] = "done"]
            /\ UNCHANGED << ticks, current_epoch >>
  /\ UNCHANGED << ticker_running, ticker_task, stop_waits, stopped, nstops >>
  /\ UNCHANGED notTicker

TickerNext ==
  \/ start
  \/ stop
  \/ \E t \in TaskIds : StopReturns(t)
  \/ \E t \in TaskIds : _run(t)

\* --------------------------------------------------------------- ledger
\* (lyra_os/kernel/ledger.py)  Trust weights are floats; here hundredths.
DEFAULT_TRUST == 50
MAX_TRUST == 100
HISTORY_LIMIT == 100
LedgerAgents == {"a1", "a2"}
TrustInputs == {0 - 50, 0, 30, 100, 150}
TrustDeltas == {0 - 60, 20, 100}
\* the [min_weight, max_weight] bands given to update_trust_weight; the
\* first is the default
TrustBands == { << 10, 100 >>, << 0, 50 >>, << 50, 50 >> }
\* public keys are strings: sequences of characters, characters as numbers
PubKeys == { << 1 >>, << 1, 2 >> }
KeyLists == UNION { [1..n -> PubKeys] : n \in 0..MaxKeys }
NoLedgerOp == [op |-> "none", agent |-> None, old |-> 0, delta |-> 0,
               min_weight |-> 0, max_weight |-> 0]

\* a clamp that clamps nothing
NoClamp(lo, hi, x) == x

\* max(lo, min(hi, x))
Clamp(lo, hi, x) == Max(lo, Min(hi, x))

\* str.__lt__: lexicographic order on strings
RECURSIVE StrLess(_, _)
StrLess(a, b) ==
  IF b = << >> THEN FALSE
  ELSE IF a = << >> THEN TRUE
  ELSE IF Head(a) # Head(b) THEN Head(a) < Head(b)
  ELSE StrLess(Tail(a), Tail(b))

\* the place of key k in the sorted list keys
RECURSIVE Insert(_, _)
Insert(keys, k) ==
  IF keys = << >> THEN << k >>
  ELSE IF StrLess(k, Head(keys)) THEN << k >> \o keys
  ELSE << Head(keys) >> \o Insert(Tail(keys), k)

\* sorted(pubkeys): every element of the list is kept
RECURSIVE sorted(_)
sorted(pubkeys) ==
  IF pubkeys = << >> THEN << >>
  ELSE Insert(sorted(Tail(pubkeys)), Head(pubkeys))

\* "".join(keys)
RECURSIVE join(_)
join(keys) == IF keys = << >> THEN << >> ELSE Head(keys) \o join(Tail(keys))

\* hashlib.sha256(...).hexdigest(): a digest that differs for different
\* strings
sha256(str) == [digest_of |-> str]

\* Ledger.compute_consensus_cid
compute_consensus_cid(pubkeys) ==
  [prefix |-> "lyra1", hash_hex |-> sha256(join(sorted(pubkeys)))]

\* Ledger.get_trust_weight
get_trust_weight(agent_id) ==
  IF trust_weights[agent_id] = Unset THEN DEFAULT_TRUST ELSE trust_weights[agent_id]

\* the last HISTORY_LIMIT entries of a history list
Pruned(h) ==
  IF Len(h) > HISTORY_LIMIT THEN SubSeq(h, Len(h) - HISTORY_LIMIT + 1, Len(h)) ELSE h

\* Ledger.__init__ with no ledger files on disk
LedgerInit ==
  /\ trust_weights = [a \in LedgerAgents |-> Unset]
  /\ trust_history = [a \in LedgerAgents |-> << >>]
  /\ cids = {}
  /\ last_ledger_op = NoLedgerOp
  /\ nledger = 0

LedgerOp ==
  /\ nledger < MaxLedgerOps
  /\ nledger' = nledger + 1

\* the body of Ledger.set_trust_weight: clamp, store, record, prune
StoreTrust(agent_id, weight) ==
  LET w == Clamp(0, MAX_TRUST, weight)
  IN /\ trust_weights' = [trust_weights EXCEPT ![agent_id] = w]
     /\ trust_history' = [trust_history EXCEPT ![agent_id] = Pruned(Append(@, w))]

\* Ledger.set_trust_weight
set_trust_weight(agent_id, weight) ==
  /\ LedgerOp
  /\ StoreTrust(agent_id, weight)
  /\ last_ledger_op' = [op |-> "set", agent |-> agent_id,
                        old |-> get_trust_weight(agent_id), delta |-> weight,
                        min_weight |-> 0, max_weight |-> MAX_TRUST]
  /\ UNCHANGED cids
  /\ UNCHANGED notLedger

\* Ledger.update_trust_weight
update_trust_weight(agent_id, delta, min_weight, max_weight) ==
  /\ LedgerOp
  /\ LET current == get_trust_weight(agent_id)
         new_weight == Clamp(min_weight, max_weight, current + delta)
     IN /\ StoreTrust(agent_id, new_weight)
        /\ last_ledger_op' = [op |-> "update", agent |-> agent_id,
                              old |-> current, delta |-> delta,
                              min_weight |-> min_weight, max_weight |-> max_weight]
  /\ UNCHANGED cids
  /\ UNCHANGED notLedger

\* a call of Ledger.compute_consensus_cid (it changes no ledger field)
ComputeCid(pubkeys) ==
  /\ LedgerOp
  /\ cids' = cids \cup {[pubkeys |-> pubkeys, cid |-> compute_consensus_cid(pubkeys)]}
  /\ UNCHANGED << trust_weights, trust_history, last_ledger_op >>
  /\ UNCHANGED notLedger

LedgerNext ==
  \/ \E a \in LedgerAgents, w \in TrustInputs : set_trust_weight(a, w)
  \/ \E a \in LedgerAgents, d \in TrustDeltas, b \in TrustBands :
        update_trust_weight(a, d, b[1], b[2])
  \/ \E P \in KeyLists : ComputeCid(P)

\* -------------------------------------------------------------- keyring
\* (lyra_os/kernel/keyring.py)  A key pair is a number; a signature is the
\* pair of the key and the data signed (Ed25519 is deterministic); a
\* signature string is the base64 text of a signature, or a text that is
\* not valid base64.
NoKey == 0
CorruptFile == 0 - 1
Entities == {"e1", "e2"}
DataValues == {"d1", "d2"}
KeyNumbers == 1..(MaxKeyringOps + 1)
NoSignature == [b64ok |-> TRUE, key |-> NoKey, data |-> None]
NotBase64 == [b64ok |-> FALSE, key |-> NoKey, data |-> None]
NoKeyringCall == [entity |-> None, data |-> None, signature |-> NoSignature,
                  result |-> "none"]

\* Ed25519PrivateKey.sign
ed25519_sign(key, data) == [key |-> key, data |-> data]

\* base64.b64encode(...).decode('utf-8')
b64encode(sig) == [b64ok |-> TRUE, key |-> sig.key, data |-> sig.data]

\* base64.b64decode: defined on valid base64 text only
b64decodes(str) == str.b64ok
b64decode(str) == [key |-> str.key, data |-> str.data]

SignatureStrings ==
  { b64encode(ed25519_sign(k, d)) : k \in KeyNumbers, d \in DataValues }
    \cup {NotBase64}

\* Keyring.load_keypair: the in-memory keys after the call (a missing or
\* unreadable file leaves them as they are and returns None)
load_keypair_ok(entity_id) == keystore[entity_id] \notin {NoKey, CorruptFile}
load_keypair(keys, entity_id) ==
  IF load_keypair_ok(entity_id)
    THEN [keys EXCEPT ![entity_id] = keystore[entity_id]]
    ELSE keys

\* Keyring.__init__ on a keystore directory that holds the given files
KeyringInitOf(stores) ==
  /\ mem_keys = [e \in Entities |-> NoKey]
  /\ keystore \in stores
  /\ nkeys = IF \E e \in Entities : keystore[e] = 1 THEN 1 ELSE 0
  /\ last_sign = NoKeyringCall
  /\ last_verify = NoKeyringCall
  /\ nkeyring = 0

EmptyKeystore == [e \in Entities |-> NoKey]
Keystores == [Entities -> {NoKey, CorruptFile}] \cup
               { [e \in Entities |-> IF e = "e1" THEN 1 ELSE NoKey] }

KeyringOp ==
  /\ nkeyring < MaxKeyringOps
  /\ nkeyring' = nkeyring + 1

\* Keyring.generate_keypair
generate_keypair(entity_id) ==
  /\ KeyringOp
  /\ nkeys' = nkeys + 1
  /\ mem_keys' = [mem_keys EXCEPT ![entity_id] = nkeys + 1]
  /\ keystore' = [keystore EXCEPT ![entity_id] = nkeys + 1]
  /\ UNCHANGED << last_sign, last_verify >>
  /\ UNCHANGED notKeyring

\* Keyring.sign
sign(entity_id, data) ==
  /\ KeyringOp
  /\ LET keys == IF mem_keys[entity_id] = NoKey
                   THEN load_keypair(mem_keys, entity_id) ELSE mem_keys
     IN /\ mem_keys' = keys
        /\ last_sign' =
             IF keys[entity_id] = NoKey
               THEN [entity |-> entity_id, data |-> data,
                     signature |-> NoSignature, result |-> "None"]
               ELSE [entity |-> entity_id, data |-> data,
                     signature |-> b64encode(ed25519_sign(keys[entity_id], data)),
                     result |-> "signed"]
  /\ UNCHANGED << keystore, nkeys, last_verify >>
  /\ UNCHANGED notKeyring

\* how Keyring.verify ends, the keys in memory being keys: b64decode is
\* called before the try block
verify_outcome(keys, entity_id, data, signature_b64) ==
  IF keys[entity_id] = NoKey THEN "false"
  ELSE IF ~b64decodes(signature_b64) THEN "raised"
  ELSE IF b64decode(signature_b64) = ed25519_sign(keys[entity_id], data)
    THEN "true" ELSE "false"

\* Keyring.verify
verify(entity_id, data, signature_b64) ==
  /\ KeyringOp
  /\ LET keys == IF mem_keys[entity_id] = NoKey
                   THEN load_keypair(mem_keys, entity_id) ELSE mem_keys
     IN /\ mem_keys' = keys
        /\ last_verify' = [entity |-> entity_id, data |-> data,
                           signature |-> signature_b64,
                           result |-> verify_outcome(keys, entity_id, data,
                                                     signature_b64)]
  /\ UNCHANGED << keystore, nkeys, last_sign >>
  /\ UNCHANGED notKeyring

KeyringNext ==
  \/ \E e \in Entities : generate_keypair(e)
  \/ \E e \in Entities, d \in DataValues : sign(e, d)
  \/ \E e \in Entities, d \in DataValues, sg \in SignatureStrings : verify(e, d, sg)

\* ------------------------------------------- scheduler, unbounded run
\* orchestrate() with max_turns beyond any turn reached.  The turn counter,
\* the mailboxes, the clock and the histories grow without bound in such a
\* run and no scheduling decision reads them, so these actions leave them
\* as they are; every turn completes with a reply.  A request is made only
\* while no other is pending, so no two entries of the heap are ever
\* compared by request time.
unboundedFrame == << agents, running, turn_count, timeout_count, recent_errors,
                     reputation, leader, private_queue, central_queue, clock,
                     speakers, calls, faults, prompt_context >>

\* one pass of the loop from its head to the await on speak()
BeginTurnUnbounded ==
  /\ pc = "loop"
  /\ running
  /\ LET ci == _check_interrupts(interrupt_heap, token_holder,
                                 paused_agents, interrupt_depth)
     IN /\ interrupt_heap' = ci.heap
        /\ token_holder' = ci.token_holder
        /\ paused_agents' = ci.paused_agents
        /\ interrupt_depth' = ci.interrupt_depth
        /\ current_agent' = IF ci.handler # None THEN ci.handler ELSE token_holder
  /\ pc' = "speaking"
  /\ UNCHANGED turn_queue
  /\ UNCHANGED unboundedFrame
  /\ UNCHANGED notSched

\* speak() returns in time; the reply is broadcast and the token advances
EndTurnUnbounded ==
  /\ pc = "speaking"
  /\ LET adv == _advance_token(token_holder, turn_queue, paused_agents,
                               interrupt_depth)
     IN /\ token_holder' = adv.token_holder
        /\ turn_queue' = adv.turn_queue
        /\ paused_agents' = adv.paused_agents
        /\ interrupt_depth' = adv.interrupt_depth
  /\ pc' = "sleeping"
  /\ UNCHANGED << current_agent, interrupt_heap >>
  /\ UNCHANGED unboundedFrame
  /\ UNCHANGED notSched

\* Orchestrator.request_interrupt, called while the loop is suspended
request_interrupt_unbounded(a, priority) ==
  /\ Suspended
  /\ interrupt_heap = {}
  /\ LET effective_priority == priority * (100 + reputation[a])
     IN interrupt_heap' =
          { [negp |-> 0 - effective_priority, ts |-> clock, agent |-> a] }
  /\ UNCHANGED << pc, current_agent, turn_queue, token_holder, interrupt_depth,
                  paused_agents >>
  /\ UNCHANGED unboundedFrame
  /\ UNCHANGED notSched

UnboundedNext ==
  \/ Orchestrate
  \/ BeginTurnUnbounded
  \/ EndTurnUnbounded
  \/ AfterSleep
  \/ \E a \in Roster, p \in Priorities : request_interrupt_unbounded(a, p)

\* --------------------------------------------------- scheduler, ballot
\* (orchestrator.py, Layer 3)  start_consensus_ballot and register_vote
QUORUM == 66
BallotProposals == {"p1", "p2"}
BallotVotes == {"APPROVE", "REJECT"}

BallotInit ==
  /\ consensus_in_progress = FALSE
  /\ consensus_votes = << >>
  /\ ballot_log = [p \in BallotProposals |-> << >>]
  /\ ballot_approved = {}
  /\ nballot = 0

BallotOp ==
  /\ nballot < MaxBallotOps
  /\ nballot' = nballot + 1

\* agent.receive_message("Orchestrator", ...) for every agent of the roster
notify_all(roster, pq, kind) ==
  [a \in AgentNames |->
     IF a \in Range(roster)
       THEN Append(pq[a], [sender |-> "Orchestrator", kind |-> kind])
       ELSE pq[a]]

\* len(consensus_votes[proposal]) >= len(agents) * QUORUM
ballot_quorum(names, roster) ==
  Cardinality(names) * 100 >= Len(roster) * QUORUM

\* Orchestrator.start_consensus_ballot
start_consensus_ballot(proposal) ==
  /\ BallotOp
  /\ IF consensus_in_progress
       THEN UNCHANGED << consensus_in_progress, consensus_votes, ballot_log,
                         ballot_approved, private_queue >>
       ELSE /\ consensus_in_progress' = TRUE
            /\ consensus_votes' =
                 [q \in DOMAIN consensus_votes \cup {proposal} |->
                    IF q = proposal THEN {} ELSE consensus_votes[q]]
            /\ private_queue' = notify_all(agents, private_queue, "CONSENSUS")
            /\ ballot_log' = [ballot_log EXCEPT ![proposal] = << >>]
            /\ ballot_approved' = ballot_approved \ {proposal}
  /\ UNCHANGED notBallot
  /\ UNCHANGED prompt_context
  /\ UNCHANGED << agents, running, pc, turn_count, current_agent, turn_queue,
                  token_holder, interrupt_heap, interrupt_depth, paused_agents,
                  timeout_count, recent_errors, reputation, leader,
                  central_queue, clock, speakers, calls, faults >>

\* Orchestrator.register_vote
register_vote(agent, proposal, vote) ==
  /\ BallotOp
  /\ IF proposal \notin DOMAIN consensus_votes
       THEN UNCHANGED << consensus_in_progress, consensus_votes, ballot_log,
                         ballot_approved, private_queue >>
       ELSE LET names == IF vote = "APPROVE"
                           THEN consensus_votes[proposal] \cup {agent}
                           ELSE consensus_votes[proposal]
                reached == ballot_quorum(names, agents)
            IN /\ consensus_votes' = [consensus_votes EXCEPT ![proposal] = names]
               /\ consensus_in_progress' =
                    IF reached THEN FALSE ELSE consensus_in_progress
               /\ private_queue' =
                    IF reached
                      THEN notify_all(agents, private_queue, "CONSENSUS_RESULT")
                      ELSE private_queue
               /\ ballot_log' = [ballot_log EXCEPT ![proposal] =
                                   Append(@, [agent |-> agent, vote |-> vote])]
               /\ ballot_approved' =
                    IF reached THEN ballot_approved \cup {proposal}
                    ELSE ballot_approved
  /\ UNCHANGED notBallot
  /\ UNCHANGED prompt_context
  /\ UNCHANGED << agents, running, pc, turn_count, current_agent, turn_queue,
                  token_holder, interrupt_heap, interrupt_depth, paused_agents,
                  timeout_count, recent_errors, reputation, leader,
                  central_queue, clock, speakers, calls, faults >>

BallotNext ==
  \/ \E p \in BallotProposals : start_consensus_ballot(p)
  \/ \E a \in Range(agents), p \in BallotProposals, v \in BallotVotes :
       register_vote(a, p, v)

\* ------------------------------------------------------ specifications
\* the scheduler alone
Init ==
  SchedInitOf(Rosters) /\ ConsInitOf({66}) /\ BusInit /\ KernelInitOf({EmptyBootstrap}) /\ TickerInit /\ LedgerInit
    /\ KeyringInitOf({EmptyKeystore}) /\ BallotInit
Next == SchedNext
Spec == Init /\ [][Next]_vars

\* the consensus engine alone
ConsInit ==
  SchedInitOf({ << "A" >> }) /\ ConsInitOf(Quorums) /\ BusInit
    /\ KernelInitOf({EmptyBootstrap}) /\ TickerInit /\ LedgerInit
    /\ KeyringInitOf({EmptyKeystore}) /\ BallotInit
ConsSpec == ConsInit /\ [][ConsNext]_vars

\* the bus alone
BusSpecInit ==
  SchedInitOf({ << "A" >> }) /\ ConsInitOf({66}) /\ BusInit
    /\ KernelInitOf({EmptyBootstrap}) /\ TickerInit /\ LedgerInit
    /\ KeyringInitOf({EmptyKeystore}) /\ BallotInit
BusSpec == BusSpecInit /\ [][BusNext]_vars

\* the kernel alone
KernelInit ==
  SchedInitOf({ << "A" >> }) /\ ConsInitOf({66}) /\ BusInit /\ KernelInitOf(Configs)
    /\ TickerInit /\ LedgerInit
    /\ KeyringInitOf({EmptyKeystore}) /\ BallotInit
KernelSpec == KernelInit /\ [][KernelNext]_vars

\* the ticker alone
TickerSpecInit ==
  SchedInitOf({ << "A" >> }) /\ ConsInitOf({66}) /\ BusInit
    /\ KernelInitOf({EmptyBootstrap}) /\ TickerInit /\ LedgerInit
    /\ KeyringInitOf({EmptyKeystore}) /\ BallotInit
TickerSpec == TickerSpecInit /\ [][TickerNext]_vars

\* the ledger alone
LedgerSpecInit ==
  SchedInitOf({ << "A" >> }) /\ ConsInitOf({66}) /\ BusInit
    /\ KernelInitOf({EmptyBootstrap}) /\ TickerInit /\ LedgerInit
    /\ KeyringInitOf({EmptyKeystore}) /\ BallotInit
LedgerSpec == LedgerSpecInit /\ [][LedgerNext]_vars

\* the keyring alone
KeyringSpecInit ==
  SchedInitOf({ << "A" >> }) /\ ConsInitOf({66}) /\ BusInit
    /\ KernelInitOf({EmptyBootstrap}) /\ TickerInit /\ LedgerInit
    /\ KeyringInitOf(Keystores) /\ BallotInit
KeyringSpec == KeyringSpecInit /\ [][KeyringNext]_vars

\* the scheduler's ballot alone
BallotSpecInit ==
  SchedInitOf(Rosters) /\ ConsInitOf({66}) /\ BusInit
    /\ KernelInitOf({EmptyBootstrap}) /\ TickerInit /\ LedgerInit
    /\ KeyringInitOf({EmptyKeystore}) /\ BallotInit
BallotSpec == BallotSpecInit /\ [][BallotNext]_vars

\* the kernel with the event loop's fairness: a step of boot() or of
\* shutdown() that can be taken is taken; nothing obliges an agent to
\* report READY or the consensus manager to receive votes
KernelLiveSpec ==
  /\ KernelSpec
  /\ WF_vars(BootStart) /\ WF_vars(LaunchAgents) /\ WF_vars(EnterConsensus)
  /\ WF_vars(await_consensus) /\ WF_vars(EnterRunning)
  /\ WF_vars(ShutdownFinish)

\* the unbounded run of the scheduler: the event loop resumes orchestrate()
\* whenever it can continue; nothing obliges an agent to request an interrupt
UnboundedSpec ==
  /\ Init /\ [][UnboundedNext]_vars
  /\ WF_vars(Orchestrate) /\ WF_vars(BeginTurnUnbounded)
  /\ WF_vars(EndTurnUnbounded) /\ WF_vars(AfterSleep)

\* ==================================================================== claims
InRun == pc \in {"loop", "speaking", "sleeping"}

\* a handoff by, or a completion signal of, the agent whose speak() is in
\* flight, made during that invocation
SpeakerGaveTokenAway ==
  \E i \in 1..Len(calls) :
     /\ calls[i].turn = turn_count
     /\ calls[i].at = "speaking"
     /\ calls[i].op \in {"handoff", "complete"}
     /\ calls[i].agent = current_agent

\* C1 (as stated): during a run the token holder is one roster agent, never
\* None, and an agent whose speak() is in flight is the token holder.
C1_SpeakerHoldsToken ==
  InRun => /\ token_holder \in Roster
           /\ (pc = "speaking" => token_holder = current_agent)

\* C1 (amended): during a run the token holder is one roster agent, never
\* None; the agent whose speak() is in flight is the token holder unless that
\* agent itself handed the token off or signalled completion during the
\* invocation.
C1_TokenHolder ==
  InRun => /\ token_holder \in Roster
           /\ token_holder # None
           /\ (pc = "speaking" /\ ~SpeakerGaveTokenAway
                 => token_holder = current_agent)

C1_Witness ==
  /\ pc = "speaking"
  /\ SpeakerGaveTokenAway
  /\ token_holder \in Roster \ {current_agent}

\* the scenario of C2: ring [A,B,C], reputations 1.0, B requests an
\* interrupt of priority 95 while A's first turn is in flight, nothing else
PreemptionScenario ==
  /\ agents = << "A", "B", "C" >>
  /\ calls = << [op |-> "interrupt", agent |-> "B", arg |-> URGENT_PRIORITY,
                 turn |-> 1, at |-> "speaking", holder |-> "A",
                 pending |-> FALSE] >>
  /\ faults = 0

\* C2: in the preemption scenario the first four speakers are A, B, A, C; A is
\* the agent on the pause stack while B speaks, and interrupt_depth is 0 again
\* after the resumption.
C2_PreemptionOrder ==
  PreemptionScenario =>
    /\ \A k \in 1..Min(4, Len(speakers)) : speakers[k] = << "A", "B", "A", "C" >>[k]
    /\ (turn_count = 2 /\ pc = "speaking" => paused_agents = << "A" >>)
    /\ (turn_count >= 3 => interrupt_depth = 0)

\* C3: without handler calls the speaker of turn k is the agent at position
\* (k-1) mod n of the roster, and orchestrate() ends after exactly max_turns
\* turns.
C3_RoundRobin ==
  calls = << >> =>
    /\ \A k \in 1..Len(speakers) :
         speakers[k] = agents[((k - 1) % Len(agents)) + 1]
    /\ Len(speakers) = turn_count
    /\ (pc = "done" => turn_count = MaxTurns)

C3_Witness ==
  /\ pc = "done"
  /\ calls = << >>
  /\ Len(speakers) >= 6
  /\ SubSeq(speakers, 1, 6) = << "A", "B", "C", "A", "B", "C" >>

C13_ReputationRange ==
  \A a \in AgentNames : 0 <= reputation[a] /\ reputation[a] <= MAX_REPUTATION

\* six timeouts in a row: A's reputation reached 0 with the fifth and the
\* sixth left it there
C13_Witness ==
  /\ timeout_count["A"] >= 6
  /\ reputation["A"] = 0

\* the number of leader notifications waiting in a mailbox
LeaderNotes(q) == Cardinality({ i \in 1..Len(q) : q[i].kind = "LEADER" })

\* what a turn that ends in a timeout does besides the reputation penalty,
\* and what a turn that ends otherwise does to the counter
TimeoutBookkeeping(o) ==
  LET cur == current_agent
  IN /\ o = "timeout" => timeout_count'[cur] = timeout_count[cur] + 1
     /\ o # "timeout" => timeout_count'[cur] = 0
     /\ (o = "timeout" /\ timeout_count'[cur] >= 3 /\ leader = None) =>
          /\ leader' \in Roster
          /\ \A a \in Roster : reputation'[a] <= reputation'[leader']
          /\ \A a \in Roster \ {leader'} :
                LeaderNotes(private_queue'[a]) = LeaderNotes(private_queue[a]) + 1
          /\ LeaderNotes(private_queue'[leader']) = LeaderNotes(private_queue[leader'])
          /\ reputation'[cur] <= MAX_REPUTATION - 60

\* C14 as stated: every missed deadline lowers the reputation by 0.2.
C14_TimeoutPenaltyExact ==
  [][ \A o \in Outcomes : EndTurn(o) =>
        /\ TimeoutBookkeeping(o)
        /\ o = "timeout" =>
             reputation'[current_agent] = reputation[current_agent] - 20 ]_vars

\* C14: a missed deadline increments the agent's timeout counter and lowers
\* its reputation by 0.2 but not below 0; any other end of the turn resets
\* the counter; at the third timeout in a row, with no leader, an agent of
\* maximal reputation becomes leader, every other agent gets exactly one
\* leader notification, and the agent that timed out is at 0.4 or less.
C14_Timeouts ==
  [][ \A o \in Outcomes : EndTurn(o) =>
        /\ TimeoutBookkeeping(o)
        /\ o = "timeout" =>
             reputation'[current_agent] = Max(0, reputation[current_agent] - 20) ]_vars

\* A missed its third deadline in a row and B was elected and A notified
C14_Witness ==
  /\ pc = "sleeping"
  /\ Len(agents) >= 2
  /\ current_agent = "A" /\ timeout_count["A"] = 3
  /\ leader = "B"
  /\ LeaderNotes(private_queue["A"]) = 1
  /\ LeaderNotes(private_queue["B"]) = 0
  /\ reputation["A"] <= 40

\* the last handler call, when it is a handoff by the token holder to a
\* roster agent made in the current turn with no interrupt request waiting
HandoffJustMade ==
  /\ calls # << >>
  /\ LET c == calls[Len(calls)]
     IN /\ c.op = "handoff" /\ c.holder = c.agent /\ c.arg \in Roster
        /\ c.turn = turn_count /\ ~c.pending

\* C15: a handoff by the token holder to a roster agent makes the target the
\* token holder and the head of the ring and ends the target's mailbox with
\* the [HANDOFF] message; the target speaks in the next turn, whatever the
\* state of the pause stack.
C15_Handoff ==
  [][ /\ \A sender, target \in Roster :
           (request_handoff(sender, target) /\ token_holder = sender) =>
              /\ token_holder' = target
              /\ Head(turn_queue') = target
              /\ private_queue'[target] # << >>
              /\ private_queue'[target][Len(private_queue'[target])] =
                    [sender |-> sender, kind |-> "HANDOFF"]
      /\ (HandoffJustMade /\ Len(speakers') > Len(speakers)) =>
              speakers'[Len(speakers')] = calls[Len(calls)].arg ]_vars

\* ---------------------------------------------------------------- consensus
\* the agents that have a vote of one of the given types on proposal p
VotersOf(p, types) ==
  { a \in VoterIds : \E i \in 1..Len(votes[p]) :
       votes[p][i].agent_id = a /\ votes[p][i].vote_type \in types }

RECURSIVE WeightOfSet(_)
\* the sum of the engine's weights over a set of agents
WeightOfSet(S) ==
  IF S = {} THEN 0
  ELSE LET a == CHOOSE x \in S : TRUE
       IN (IF agent_weights[a] = Unset THEN DEFAULT_WEIGHT ELSE agent_weights[a])
          + WeightOfSet(S \ {a})

ApproveQuorum(p) ==
  /\ WeightOfSet(VotersOf(p, VoteTypeValues)) > 0
  /\ WeightOfSet(VotersOf(p, {"approve"})) * 100
       >= quorum_threshold * WeightOfSet(VotersOf(p, VoteTypeValues))

RejectQuorum(p) ==
  /\ WeightOfSet(VotersOf(p, VoteTypeValues)) > 0
  /\ WeightOfSet(VotersOf(p, {"reject"})) * 100
       >= quorum_threshold * WeightOfSet(VotersOf(p, VoteTypeValues))

VoteChecked == handled.kind = "vote" /\ handled.result = "accepted"

Announced(p, result) ==
  \E i \in 1..Len(emitted) :
     /\ emitted[i].type = "quorum_reached"
     /\ emitted[i].proposal_id = p
     /\ emitted[i].result = result

C7_OneVotePerAgent ==
  \A p \in PIDs :
     /\ \A a \in VoterIds :
          Cardinality({ i \in 1..Len(votes[p]) : votes[p][i].agent_id = a }) <= 1
     /\ (VoteChecked /\ handled.pid = p) =>
          \E i \in 1..Len(votes[p]) :
             /\ votes[p][i].agent_id = handled.agent
             /\ votes[p][i].vote_type = handled.vote_type
             /\ votes[p][i].id = vote_seq - 1
     /\ approve_weight(votes[p], agent_weights) = WeightOfSet(VotersOf(p, {"approve"}))
     /\ reject_weight(votes[p], agent_weights) = WeightOfSet(VotersOf(p, {"reject"}))
     /\ total_weight(votes[p], agent_weights) = WeightOfSet(VotersOf(p, VoteTypeValues))

C7_Witness ==
  /\ VoteChecked
  /\ handled.replaced
  /\ vote_seq >= 2
  /\ Len(votes[handled.pid]) = 1

\* a vote message the engine has to discard, as C8 lists them
ListedInvalid(m) ==
  \/ m.proposal_id = None \/ m.agent_id = None \/ m.vote_type = None
  \/ m.vote_type \notin VoteTypeValues
  \/ IF m.proposal_id = None THEN TRUE
     ELSE proposals[m.proposal_id].status # "voting"

\* the same, a missing agent_id counting only when the message has no sender
Invalid(m) ==
  \/ m.proposal_id = None \/ m.vote_type = None
  \/ (m.agent_id = None /\ m.sender_id = None)
  \/ m.vote_type \notin VoteTypeValues
  \/ IF m.proposal_id = None THEN TRUE
     ELSE proposals[m.proposal_id].status # "voting"

Discarded == UNCHANGED << proposals, votes >> /\ emitted' = << >>

Yield(sb) == received[sb] \o bus_queues[sb]

PositionIn(seq, m) == CHOOSE i \in 1..Len(seq) : seq[i] = m

\* C10: of two publish calls made while sb was subscribed to their topics,
\* the mailbox of sb yields the message of the earlier call first.
C10_MailboxFifo ==
  \A sb \in SubscriberIds :
    \A i, j \in 1..Len(published) :
       (i < j /\ sb \in published[i].subscribers /\ sb \in published[j].subscribers) =>
          /\ \E k \in 1..Len(Yield(sb)) : Yield(sb)[k] = published[i].message
          /\ \E k \in 1..Len(Yield(sb)) : Yield(sb)[k] = published[j].message
          /\ PositionIn(Yield(sb), published[i].message)
               < PositionIn(Yield(sb), published[j].message)

C10_Witness ==
  \E sb \in SubscriberIds :
     /\ Len(received[sb]) >= 2
     /\ received[sb][1].topic # received[sb][2].topic
     /\ received[sb][1].id < received[sb][2].id

\* C11: a publish call appends exactly one copy of its message to the mailbox
\* of every subscriber subscribed to the topic at the call, however often it
\* subscribed, and leaves every other mailbox as it was.
C11_PublishOnce ==
  [][ Len(published') > Len(published) =>
        LET call == published'[Len(published')]
        IN \A sb \in SubscriberIds :
              bus_queues'[sb] = IF sb \in call.subscribers
                                  THEN Append(bus_queues[sb], call.message)
                                  ELSE bus_queues[sb] ]_vars

\* a publish reached a subscriber that had subscribed twice, with a message
\* already waiting, while the other subscriber held mail and was not subscribed
C11_Witness ==
  /\ published # << >>
  /\ LET call == published[Len(published)]
     IN \E sb, other \in SubscriberIds :
           /\ sb \in call.twice /\ sb \in call.subscribers
           /\ Len(bus_queues[sb]) = 2
           /\ bus_queues[sb][2] = call.message
           /\ other \notin call.subscribers
           /\ Len(bus_queues[other]) = 1

\* --------------------------------------------------------------- kernel
\* the position of a kernel state in INITIALIZING -> ... -> SHUTTING_DOWN
KRank(st) == CHOOSE i \in 1..Len(KernelStates) : KernelStates[i] = st

\* C16: the kernel state only moves forward along the sequence of
\* KernelStates, and a step that enters CONSENSUS or creates the boot
\* proposal is taken only with every required agent of the bootstrap record
\* in the ready set.
C16_KernelForward ==
  [][ /\ kstate' # kstate => KRank(kstate') > KRank(kstate)
      /\ ((kstate' = "consensus" /\ kstate # "consensus")
            \/ (boot_status' = "published" /\ boot_status # "published")) =>
           (config.required \cap config.agents) \subseteq ready_agents ]_vars

\* C17: whenever boot() waits for readiness and every required agent of the
\* bootstrap record is ready (trivially so when none is required), boot()
\* eventually leaves the wait, enters CONSENSUS and creates the boot proposal.
C17_ReadyLeadsToConsensus ==
  (boot_pc = "waiting" /\ required_agents \subseteq ready_agents)
     ~> (boot_pc # "waiting" /\ boot_status # "none")

C19_EpochsIncrease ==
  /\ ticks # << >> => ticks[1] = 0
  /\ \A i, j \in 1..Len(ticks) : i < j => ticks[i] < ticks[j]

\* ticks were published by two different tasks, i.e. across a stop() and a
\* later start()
C19_Witness ==
  /\ Len(ticks) >= 3
  /\ nstops >= 1
  /\ \E t, u \in TaskIds : t # u /\ ticker_tasks[t] = "done" /\ ticker_tasks[u] = "sleeping"

\* C20: a stop() on a stopped ticker changes nothing, and once a stop() call
\* has returned no tick event is published until start() is called again.
C20_StopIsFinal ==
  [][ /\ (nstops' > nstops /\ ~ticker_running) =>
           UNCHANGED << current_epoch, ticker_running, ticker_task,
                        ticker_tasks, stop_waits, ticks >>
      /\ Len(ticks') > Len(ticks) => ~stopped ]_vars

\* --------------------------------------------------------------- ledger
\* C21: compute_consensus_cid returns the same CID for any two key lists
\* that are equal as sets, whatever the order and the repetitions.
C21_CidOfSet ==
  \A x, y \in cids : Range(x.pubkeys) = Range(y.pubkeys) => x.cid = y.cid

\* C23: every stored trust weight is in [0, 1]; an agent never set reads
\* 0.5; after update_trust_weight(id, delta, min, max) with
\* 0 <= min <= max <= 1 the agent's weight is old + delta clamped to
\* [min, max].
C23_TrustWeights ==
  /\ \A a \in LedgerAgents :
        /\ trust_weights[a] # Unset =>
              (0 <= trust_weights[a] /\ trust_weights[a] <= MAX_TRUST)
        /\ trust_history[a] = << >> => get_trust_weight(a) = DEFAULT_TRUST
        /\ \A i \in 1..Len(trust_history[a]) :
              0 <= trust_history[a][i] /\ trust_history[a][i] <= MAX_TRUST
  /\ last_ledger_op.op = "update" =>
        LET u == last_ledger_op
        IN get_trust_weight(u.agent) =
             Max(u.min_weight, Min(u.max_weight, u.old + u.delta))

\* an update pushed an agent's weight against the upper end of a band that
\* is narrower than [0, 1], with the other agent's weight set to 0
C23_Witness ==
  /\ last_ledger_op.op = "update"
  /\ last_ledger_op.max_weight = 50
  /\ last_ledger_op.old + last_ledger_op.delta > 50
  /\ \E a \in LedgerAgents :
        /\ a # last_ledger_op.agent
        /\ trust_weights[a] = 0 /\ trust_history[a] = << 0 >>
        /\ get_trust_weight(last_ledger_op.agent) = 50

\* -------------------------------------------------------------- keyring
\* C22: verify never raises; it returns true exactly for the signature that
\* sign produces for that entity and data, and false otherwise (invalid
\* base64, wrong signature, no key in memory or in the keystore).
C22_VerifyTotal ==
  last_verify.result # "none" =>
    /\ last_verify.result \in {"true", "false"}
    /\ last_verify.result = "true" <=>
         /\ mem_keys[last_verify.entity] # NoKey
         /\ last_verify.signature =
              b64encode(ed25519_sign(mem_keys[last_verify.entity], last_verify.data))

\* ------------------------------------------------------------ scheduler
\* the pending interrupt of highest effective priority, the earliest
\* request among equals
IsTopInterrupt(e) ==
  /\ e \in interrupt_heap
  /\ \A f \in interrupt_heap :
       \/ 0 - e.negp > 0 - f.negp
       \/ (e.negp = f.negp /\ e.ts <= f.ts)

\* C24: at the between-turn check, when the heap is not empty and its top
\* effective priority is at least PREEMPT_THRESHOLD, the pending interrupt
\* of highest effective priority (earliest on ties) is popped, the agent that
\* held the token is pushed on the pause stack, interrupt_depth grows by 1,
\* and the interrupter becomes token holder and speaker of that turn.
C24_UrgentInterruptServed ==
  [][ \A e \in interrupt_heap :
        ( /\ BeginTurn
          /\ IsTopInterrupt(e)
          /\ (0 - e.negp) >= PREEMPT_THRESHOLD * PriorityScale )
        => /\ interrupt_heap' = interrupt_heap \ {e}
           /\ paused_agents' = << token_holder >> \o paused_agents
           /\ interrupt_depth' = interrupt_depth + 1
           /\ token_holder' = e.agent
           /\ current_agent' = e.agent
           /\ speakers' = Append(speakers, e.agent) ]_vars

\* two urgent requests were pending; the earlier one (B's) is being served
\* while the later one (C's) still waits
C24_Witness ==
  /\ pc = "speaking" /\ turn_count = 2
  /\ Len(calls) = 2
  /\ calls[1].op = "interrupt" /\ calls[1].agent = "B"
  /\ calls[1].arg = URGENT_PRIORITY
  /\ calls[2].op = "interrupt" /\ calls[2].agent = "C"
  /\ calls[2].arg = URGENT_PRIORITY
  /\ calls[2].turn = 1
  /\ \E e \in interrupt_heap : e.agent = "C"
  /\ Cardinality(interrupt_heap) = 1
  /\ token_holder = "B" /\ current_agent = "B"
  /\ interrupt_depth = 1 /\ Len(paused_agents) = 1

\* the turn that has just ended ran into the MAX_TURN_MS timeout, so it
\* lasted longer than MIN_SLICE (its speaker's timeout count was set by it)
LastTurnTimedOut ==
  /\ turn_count >= 1
  /\ current_agent # None
  /\ timeout_count[current_agent] > 0

\* C25: an interrupt pending at a between-turn check is serviced, whatever
\* its effective priority, once the slice has lasted at least MIN_SLICE
\* (here: the turn before the check lasted the whole MAX_TURN_MS).
C25_LowInterruptServed ==
  [][ ( /\ BeginTurn
        /\ LastTurnTimedOut
        /\ interrupt_heap # {} )
      => /\ interrupt_heap' # interrupt_heap
         /\ interrupt_depth' = interrupt_depth + 1 ]_vars

EventsAt(kind) == { i \in 1..Len(emitted) : emitted[i].type = kind }
DecisionsAt ==
  { i \in EventsAt("status_changed") :
      emitted[i].new_status \in {"approved", "rejected"} }

TableWeight(a) == IF agent_weights[a] = Unset THEN 100 ELSE agent_weights[a]

RECURSIVE TableSum(_)
TableSum(S) ==
  IF S = {} THEN 0
  ELSE LET a == CHOOSE x \in S : TRUE IN TableWeight(a) + TableSum(S \ {a})

VotedWith(p, types) ==
  { a \in VoterIds : \E i \in 1..Len(votes[p]) :
      votes[p][i].agent_id = a /\ votes[p][i].vote_type \in types }

\* the status the weighted rule gives a proposal that was VOTING
WeightedOutcome(p) ==
  LET total == TableSum(VotedWith(p, {"approve", "reject", "abstain"}))
      approve == TableSum(VotedWith(p, {"approve"}))
      reject == TableSum(VotedWith(p, {"reject"}))
  IN IF total = 0 THEN "voting"
     ELSE IF approve * 100 >= quorum_threshold * total THEN "approved"
     ELSE IF reject * 100 >= quorum_threshold * total THEN "rejected"
     ELSE "voting"

\* Q = 0.66, weights A 1.0, B 1.0, C 0.2 and the votes A APPROVE, B APPROVE,
\* C REJECT, as far as they were stored, A's first
ScenarioWeights ==
  quorum_threshold = 66 /\ TableWeight("A") = 100 /\ TableWeight("B") = 100 /\ TableWeight("C") = 20
ScenarioVotes(p) ==
  /\ votes[p] # << >>
  /\ votes[p][1].agent_id = "A"
  /\ \A i \in 1..Len(votes[p]) :
       << votes[p][i].agent_id, votes[p][i].vote_type >> \in
         { << "A", "approve" >>, << "B", "approve" >>, << "C", "reject" >> }

vote_value(vote) == IF vote = "APPROVE" THEN "approve" ELSE "reject"

\* the status the consensus engine gives a VOTING proposal when the votes of
\* log are handled in order, every agent having the default weight
RECURSIVE engine_replay(_, _, _)
engine_replay(log, props, vts) ==
  IF log = << >> THEN props["P1"].status
  ELSE LET msg == [is_dict |-> TRUE, proposal_id |-> "P1",
                   agent_id |-> Head(log).agent, sender_id |-> Head(log).agent,
                   vote_type |-> vote_value(Head(log).vote)]
       IN IF vote_disposition(props, msg) # "accepted"
            THEN engine_replay(Tail(log), props, vts)
            ELSE LET vote == [id |-> 0, agent_id |-> msg.agent_id,
                              vote_type |-> msg.vote_type, timestamp |-> 0]
                     v2 == [vts EXCEPT !["P1"] = dict_set(@, vote)]
                     cc == _check_consensus(props, v2,
                                            [a \in VoterIds |-> Unset],
                                            QUORUM, "P1")
                 IN engine_replay(Tail(log), cc.proposals, v2)

EngineApproves(log) ==
  engine_replay(log,
                [p \in PIDs |-> [status |-> "voting", expires_at |-> NoTime]],
                [p \in PIDs |-> << >>]) = "approved"

\* C30: the scheduler's ballot agrees with the consensus engine: after
\* start_consensus_ballot(proposal) and any register_vote calls, the
\* scheduler has declared the proposal approved exactly when the engine's
\* weighted-quorum rule, fed the same votes with equal weights, sets the
\* proposal to APPROVED.
C30_BallotDelegates ==
  \A p \in DOMAIN consensus_votes :
    p \in ballot_approved <=> EngineApproves(ballot_log[p])

\* ------------------------------------------------------------ scheduler
\* the number of responses of agent a in mailbox q
Responses(q, a) ==
  Cardinality({ i \in 1..Len(q) : q[i].kind = "RESPONSE" /\ q[i].sender = a })

\* C31: after each turn the speaker's response has been delivered exactly
\* once to the mailbox of every other roster agent and not to the speaker's,
\* and the central queue is empty again; at the start of a turn the
\* speaker's mailbox is drained completely, in FIFO order, into the prompt.
C31_Mailboxes ==
  [][ /\ (pc = "speaking" /\ pc' = "sleeping") =>
           /\ \A a \in Roster \ {current_agent} :
                /\ Responses(private_queue'[a], current_agent)
                     = Responses(private_queue[a], current_agent) + 1
                /\ private_queue'[a][Len(private_queue'[a])]
                     = [sender |-> current_agent, kind |-> "RESPONSE"]
           /\ Responses(private_queue'[current_agent], current_agent)
                = Responses(private_queue[current_agent], current_agent)
           /\ central_queue' = << >>
      /\ (pc = "loop" /\ pc' = "speaking") =>
           /\ prompt_context' = private_queue[current_agent']
           /\ private_queue'[current_agent'] = << >> ]_vars

\* A's second turn: its prompt holds B's response and then C's
C31_Witness ==
  /\ agents = << "A", "B", "C" >>
  /\ pc = "speaking" /\ turn_count = 4 /\ current_agent = "A"
  /\ prompt_context = << [sender |-> "B", kind |-> "RESPONSE"],
                         [sender |-> "C", kind |-> "RESPONSE"] >>
  /\ private_queue["A"] = << >>
  /\ Responses(private_queue["B"], "C") = 1
  /\ central_queue = << >>

\* C32: turn scheduling is starvation-free: in an unbounded run in which
\* every turn completes, every roster agent speaks infinitely often, even
\* when an interrupt of effective priority >= 90 is requested in every turn.
C32_NoStarvation ==
  \A a \in AgentNames :
    []<>(a \notin Roster \/ (pc = "speaking" /\ current_agent = a))

\* the only handler calls of the run are completion signals, each made by
\* the token holder during its own turn, with no interrupt pending
OwnCompletionsOnly ==
  /\ calls # << >>
  /\ \A i \in 1..Len(calls) :
       /\ calls[i].op = "complete"
       /\ calls[i].at = "speaking"
       /\ calls[i].agent = calls[i].holder
       /\ ~calls[i].pending
       /\ speakers[calls[i].turn] = calls[i].agent

\* C33: when the token holder signals completion during its own turn, the
\* token advances exactly once for that turn: the next speaker is the agent
\* that follows it in ring order and no ring agent loses its turn.
C33_CompletionAdvancesOnce ==
  OwnCompletionsOnly =>
    \A k \in 1..Len(speakers) :
      speakers[k] = agents[((k - 1) % Len(agents)) + 1]

\* C34: in every reachable state of the scheduler interrupt_depth is not
\* negative and equals the number of agents on the pause stack, whatever the
\* interleaving of turns, interrupt requests, handoffs and completions.
C34_DepthIsStackHeight ==
  /\ interrupt_depth >= 0
  /\ interrupt_depth = Len(paused_agents)

\* an interrupt is being served (the token holder of the check is paused)
\* and the interrupter has handed the token off during that turn
C34_Witness ==
  /\ pc = "speaking"
  /\ interrupt_depth = 1 /\ Len(paused_agents) = 1
  /\ Len(calls) = 2
  /\ calls[1].op = "interrupt"
  /\ calls[2].op = "handoff" /\ calls[2].agent = current_agent
  /\ calls[2].turn = turn_count
  /\ token_holder # current_agent

\* the number of places of the sequence s that hold x
Occurrences(s, x) == Cardinality({ i \in 1..Len(s) : s[i] = x })

\* C35: in every reachable state the ring (turn_queue) holds every roster
\* agent exactly once and nobody else: rotation, interrupt servicing,
\* resumption and handoff (to oneself or to the agent at the front included)
\* neither drop nor duplicate an agent.
C35_RingIsRoster ==
  /\ Len(turn_queue) = Len(agents)
  /\ \A a \in Roster : Occurrences(turn_queue, a) = 1

\* the token holder has handed off to itself and then to the agent that was
\* at the front of the ring, in a roster of three
C35_Witness ==
  /\ Len(agents) = 3
  /\ Len(calls) = 2
  /\ calls[1].op = "handoff" /\ calls[1].holder = calls[1].agent
  /\ calls[1].arg = calls[1].agent
  /\ calls[2].op = "handoff" /\ calls[2].holder = calls[2].agent
  /\ calls[2].arg \in Roster \ {calls[2].agent}
  /\ turn_queue[1] = calls[2].arg
  /\ turn_queue[2] = calls[1].agent

\* ------------------------------------------------------ scheduler ballot
\* C36: for each ballot started with start_consensus_ballot(p) the
\* '[CONSENSUS RESULT]' announcement for p is delivered at most once to each
\* agent: a vote registered for p after its ballot has announced the result
\* (p is in ballot_approved, which a new ballot for p empties) delivers
\* nothing more.
C36_ResultAnnouncedOnce ==
  [][ \A p \in BallotProposals :
        p \in ballot_approved =>
          \A a \in Roster, v \in BallotVotes :
            register_vote(a, p, v) => private_queue' = private_queue ]_vars

\* C37: at most one ballot is in progress at a time: a start_consensus_ballot
\* while consensus_in_progress is true changes nothing, and the flag is
\* cleared only by a vote for the ballot that set it, never by a vote for a
\* proposal whose own ballot was already decided.
C37_OneBallotAtATime ==
  [][ \A p \in BallotProposals :
        /\ (consensus_in_progress /\ start_consensus_ballot(p)) =>
              UNCHANGED << consensus_in_progress, consensus_votes, private_queue >>
        /\ (consensus_in_progress /\ ~consensus_in_progress') =>
              \A a \in Roster, v \in BallotVotes :
                register_vote(a, p, v) => p \notin ballot_approved ]_vars

HandoffStep ==
  /\ Len(calls') = Len(calls) + 1
  /\ calls'[Len(calls')].op = "handoff"

\* C39: request_handoff changes the token holder and the ring only when the
\* sender holds the token and the target is a roster agent. With an unknown
\* target it returns false and changes no scheduler state and no mailbox;
\* with a known target and a sender that does not hold the token it returns
\* true, appends the [HANDOFF] message to the target's mailbox and leaves
\* the token holder, the ring, the pause stack and interrupt_depth unchanged.
C39_HandoffFrame ==
  [][ HandoffStep =>
        LET sender == calls'[Len(calls')].agent
            target == calls'[Len(calls')].arg
        IN /\ (token_holder' # token_holder \/ turn_queue' # turn_queue) =>
                (token_holder = sender /\ target \in Roster)
           /\ target \notin Roster =>
                /\ ~request_handoff_result(target)
                /\ UNCHANGED << agents, running, pc, turn_count, current_agent,
                                turn_queue, token_holder, interrupt_heap,
                                interrupt_depth, paused_agents, timeout_count,
                                recent_errors, reputation, leader,
                                private_queue, central_queue >>
           /\ (target \in Roster /\ token_holder # sender) =>
                /\ request_handoff_result(target)
                /\ private_queue' = [private_queue EXCEPT ![target] =
                      Append(@, [sender |-> sender, kind |-> "HANDOFF"])]
                /\ UNCHANGED << token_holder, turn_queue, paused_agents,
                                interrupt_depth >> ]_vars

\* an agent that does not hold the token has handed off to a roster agent,
\* and before that a handoff to an unknown name was refused
C39_Witness ==
  /\ Len(calls) = 2
  /\ calls[1].op = "handoff" /\ calls[1].arg \notin Roster
  /\ calls[2].op = "handoff" /\ calls[2].arg \in Roster
  /\ calls[2].holder # calls[2].agent
  /\ token_holder = calls[2].holder
  /\ private_queue[calls[2].arg] # << >>
  /\ private_queue[calls[2].arg][Len(private_queue[calls[2].arg])] =
       [sender |-> calls[2].agent, kind |-> "HANDOFF"]

\* ---------------------------------------------------------------- kernel
\* the first READY report of the log for agent a
FirstReport(log, a) ==
  log[CHOOSE i \in 1..Len(log) :
        /\ log[i].agent_id = a
        /\ \A j \in 1..(i - 1) : log[j].agent_id # a]

\* the entry of agent_pubkeys a READY carrying pubkey leaves when it is
\* the first for its agent: none for a missing or empty key
RecordedKey(pubkey) == IF pubkey \in {None, ""} THEN None ELSE pubkey

\* C40: the ready set only grows; a READY for an agent that is already
\* ready, from stdout or from global.bus, changes neither the ready set nor
\* the recorded key, so that the key recorded for a ready agent is the one
\* of its first READY; and the agents of the BOOT_CONSENSUS proposal are
\* exactly the ready set at the time of the proposal.
C40_ReadySet ==
  [][ /\ ready_agents \subseteq ready_agents'
      /\ \A a \in ready_agents : agent_pubkeys'[a] = agent_pubkeys[a]
      /\ (/\ Len(ready_log') > Len(ready_log)
          /\ ready_log'[Len(ready_log')].agent_id \in ready_agents) =>
             UNCHANGED << ready_agents, agent_pubkeys, all_ready >>
      /\ \A a \in ready_agents' :
           /\ \E i \in 1..Len(ready_log') : ready_log'[i].agent_id = a
           /\ agent_pubkeys'[a] = RecordedKey(FirstReport(ready_log', a).pubkey)
      /\ (~boot_proposal.made /\ boot_proposal'.made) =>
           boot_proposal'.agents = ready_agents ]_vars

\* a1 reported READY on its stdout with key k1, the boot proposal was made
\* with a1 as its only agent, and then a READY for a1 with key k2 came over
\* global.bus: the recorded key is still k1
C40_Witness ==
  /\ ready_log = << [source |-> "stdout", agent_id |-> "a1", pubkey |-> "k1"],
                    [source |-> "bus", agent_id |-> "a1", pubkey |-> "k2"] >>
  /\ boot_proposal = [made |-> TRUE, agents |-> {"a1"}]
  /\ ready_agents = {"a1"}
  /\ agent_pubkeys["a1"] = "k1"

=============================================================================
